---- MODULE Spec2Model ----
(***************************************************************************)
(* Dev Peace: the session lifecycle engine.                                *)
(*                                                                         *)
(* The model follows src/src/dev_peace: the SQLite store                   *)
(* (database/models.py), the filesystem-event classifier                   *)
(* (git_monitor/detector.py), the two branch parsers                       *)
(* (git_monitor/detector.py and git_monitor/branch_parser.py), the status  *)
(* rules engine (core/status_manager.py) and the session manager           *)
(* (core/activity_monitor.py).                                             *)
(*                                                                         *)
(* Two threads run in the process: the watchdog observer thread, which     *)
(* dispatches one filesystem event at a time to the handlers, and the main *)
(* thread, which runs stop_monitoring from the signal handler of           *)
(* cli/main.py.  A handler of the observer thread is one step; the loop of *)
(* stop_monitoring is a sequence of steps, between which the observer      *)
(* thread may run a handler.                                               *)
(***************************************************************************)
EXTENDS Integers, Sequences, FiniteSets, TLC

(***************************************************************************)
(* Bounds of the model.                                                    *)
(***************************************************************************)
MaxSessions == 2
MaxActivities == 1
MaxTicks == 1
MaxCommits == 1
MaxStarts == 2
MaxUserActions == 1
MaxFaults == 1

\* Python's None / SQL NULL.  A missing branch, issue or timestamp is the empty
\* sequence (get_current_branch and the extractors never return ''), a missing
\* status the string "None", a missing session id 0 (SQLite ids start at 1).
None == <<>>
NoStatus == "None"
NoSession == 0

(***************************************************************************)
(* Characters and strings.  A branch name is a sequence of characters.     *)
(***************************************************************************)
\* str.upper() and str.lower() on the letters the branch names are written in.
UpperOf ==
    [a |-> "A", b |-> "B", c |-> "C", d |-> "D", e |-> "E", f |-> "F", g |-> "G", h |-> "H", i |-> "I", l |-> "L", n |-> "N", o |-> "O", p |-> "P", r |-> "R", s |-> "S", t |-> "T", u |-> "U", w |-> "W", x |-> "X", y |-> "Y"]
LowerOf ==
    [A |-> "a", B |-> "b", C |-> "c", D |-> "d", E |-> "e", F |-> "f", G |-> "g", H |-> "h", I |-> "i", L |-> "l", N |-> "n", O |-> "o", P |-> "p", R |-> "r", S |-> "s", T |-> "t", U |-> "u", W |-> "w", X |-> "x", Y |-> "y"]

LowerLetters == DOMAIN UpperOf
UpperLetters == DOMAIN LowerOf
Letters == LowerLetters \cup UpperLetters
Digits == {"1", "2"}

upper(c) == IF c \in LowerLetters THEN UpperOf[c] ELSE c

lower(c) == IF c \in UpperLetters THEN LowerOf[c] ELSE c

Upper(s) == [i \in 1..Len(s) |-> upper(s[i])]
Lower(s) == [i \in 1..Len(s) |-> lower(s[i])]

\* The last index k >= i - 1 such that s[i..k] lies in class: a greedy x+ from i.
RECURSIVE RunEnd(_, _, _)
RunEnd(s, i, class) ==
    IF i <= Len(s) /\ s[i] \in class THEN RunEnd(s, i + 1, class) ELSE i - 1

\* [A-Z]+-\d+ (IGNORECASE) matched at i: the index of its last character, or 0.
KeyDashNum(s, i) ==
    LET k == RunEnd(s, i, Letters)
        e == RunEnd(s, k + 2, Digits)
    IN  IF k >= i /\ k + 1 <= Len(s) /\ s[k + 1] = "-" /\ e >= k + 2 THEN e ELSE 0

\* [A-Z]+\d+ (IGNORECASE) matched at i: the index of its last character, or 0.
KeyNum(s, i) ==
    LET k == RunEnd(s, i, Letters)
        e == RunEnd(s, k + 1, Digits)
    IN  IF k >= i /\ e >= k + 1 THEN e ELSE 0

\* ^[A-Z]+-?\d+$ on an upper-cased issue.
ValidIssueFormat(issue) ==
    LET k == RunEnd(issue, 1, UpperLetters)
        d == IF k + 1 <= Len(issue) /\ issue[k + 1] = "-" THEN k + 2 ELSE k + 1
    IN  k >= 1 /\ d <= Len(issue) /\ RunEnd(issue, d, Digits) = Len(issue)

Min(S) == CHOOSE x \in S : \A y \in S : x <= y

(***************************************************************************)
(* GitRepositoryDetector.extract_jira_issue: re.search of four patterns,   *)
(* in order; the first pattern that matches anywhere and whose group       *)
(* passes the format check gives the issue.                                *)
(***************************************************************************)
\* The group G of a pattern at i: [A-Z]+-\d+ when dash, [A-Z]+\d+ otherwise.
Key(dash, s, i) == IF dash THEN KeyDashNum(s, i) ELSE KeyNum(s, i)

\* re.search(r'[^/]+/(G)'): the leftmost start lies in the first non-empty
\* slash-free segment whose closing slash is followed by G.
SlashStarts(s, dash) ==
    {j \in 2..Len(s) : s[j] = "/" /\ s[j - 1] # "/" /\ Key(dash, s, j + 1) # 0}

SearchAfterSlash(s, dash) ==
    IF SlashStarts(s, dash) = {} THEN None
    ELSE LET j == Min(SlashStarts(s, dash)) IN SubSeq(s, j + 1, Key(dash, s, j + 1))

\* re.search(r'(G)'): the leftmost position where G matches.
SearchAnywhere(s, dash) ==
    LET begins == {i \in 1..Len(s) : Key(dash, s, i) # 0}
    IN  IF begins = {} THEN None
        ELSE LET i == Min(begins) IN SubSeq(s, i, Key(dash, s, i))

DetectorGroups(s) ==
    << SearchAfterSlash(s, TRUE), SearchAnywhere(s, TRUE),
       SearchAfterSlash(s, FALSE), SearchAnywhere(s, FALSE) >>

extract_jira_issue(branch_name) ==
    IF branch_name = None THEN None
    ELSE LET g == DetectorGroups(branch_name)
             hits == {n \in 1..4 : g[n] # None /\ ValidIssueFormat(Upper(g[n]))}
         IN  IF hits = {} THEN None ELSE Upper(g[Min(hits)])

(***************************************************************************)
(* JiraBranchParser.parse_branch: re.match of six anchored patterns, in    *)
(* order; the first that matches fills the BranchInfo.                     *)
(***************************************************************************)
\* The tail after the issue: end of string, or "-" and a non-empty description.
TailOk(s, e, withDesc) ==
    \/ e = Len(s)
    \/ withDesc /\ e + 2 <= Len(s) /\ s[e + 1] = "-"

\* ^(?P<type>[^/]+)/ : the index of the slash closing the first segment, or 0.
TypeSlash(s) ==
    LET k == RunEnd(s, 1, {s[i] : i \in 1..Len(s)} \ {"/"})
    IN  IF k >= 1 /\ k + 1 <= Len(s) THEN k + 1 ELSE 0

\* Pattern n of BRANCH_PATTERNS on s: <<matched, index of the slash or 0, end of
\* the issue>>.
BranchPattern(n, s) ==
    LET t == TypeSlash(s)
        typed == n \in {1, 2, 5}
        from == IF typed THEN t + 1 ELSE 1
        e == IF n \in {5, 6} THEN KeyNum(s, from) ELSE KeyDashNum(s, from)
    IN  << (typed => t # 0) /\ e # 0 /\ TailOk(s, e, n \in {1, 3}),
           IF typed THEN t ELSE 0, e >>

NormalizeDesc(d) ==
    [i \in 1..Len(d) |-> IF d[i] \in {"-", "_"} THEN " " ELSE d[i]]

parse_branch(branch_name) ==
    IF branch_name = None
    THEN [original_name |-> <<>>, branch_type |-> None, jira_issue |-> None,
          description |-> None, is_valid_jira_format |-> FALSE]
    ELSE LET hits == {n \in 1..6 : BranchPattern(n, branch_name)[1]}
         IN  IF hits = {}
             THEN [original_name |-> branch_name, branch_type |-> None,
                   jira_issue |-> None, description |-> None,
                   is_valid_jira_format |-> FALSE]
             ELSE LET m == BranchPattern(Min(hits), branch_name)
                      issue == Upper(SubSeq(branch_name, m[2] + 1, m[3]))
                  IN  [original_name |-> branch_name,
                       branch_type |-> IF m[2] # 0
                                       THEN Lower(SubSeq(branch_name, 1, m[2] - 1))
                                       ELSE None,
                       jira_issue |-> issue,
                       description |-> IF m[3] < Len(branch_name)
                                       THEN NormalizeDesc(SubSeq(branch_name, m[3] + 2,
                                                                 Len(branch_name)))
                                       ELSE None,
                       is_valid_jira_format |-> ValidIssueFormat(issue)]

parser_extract_jira_issue(branch_name) ==
    LET info == parse_branch(branch_name)
    IN  IF info.is_valid_jira_format THEN info.jira_issue ELSE None

\* COMMON_BRANCH_TYPES (lines 44-47).
COMMON_BRANCH_TYPES ==
    { <<"f", "e", "a", "t", "u", "r", "e">>, <<"f", "e", "a", "t">>,
      <<"b", "u", "g", "f", "i", "x">>, <<"f", "i", "x">>,
      <<"h", "o", "t", "f", "i", "x">>, <<"r", "e", "l", "e", "a", "s", "e">>,
      <<"c", "h", "o", "r", "e">>, <<"d", "o", "c", "s">>,
      <<"s", "t", "y", "l", "e">>, <<"r", "e", "f", "a", "c", "t", "o", "r">>,
      <<"t", "e", "s", "t">>, <<"p", "e", "r", "f">>,
      <<"b", "u", "i", "l", "d">>, <<"c", "i">> }

\* re.sub(r'\s+', '-', d): every run of blanks becomes one dash.
RECURSIVE DashBlanks(_)
DashBlanks(d) ==
    IF d = <<>> THEN d
    ELSE IF Head(d) # " " THEN <<Head(d)>> \o DashBlanks(Tail(d))
    ELSE IF Len(d) > 1 /\ d[2] = " " THEN DashBlanks(Tail(d))
    ELSE <<"-">> \o DashBlanks(Tail(d))

\* str.strip() of a description: the blanks at both ends go.
RECURSIVE StripBlanks(_)
StripBlanks(d) ==
    IF d = <<>> THEN d
    ELSE IF Head(d) = " " THEN StripBlanks(Tail(d))
    ELSE IF d[Len(d)] = " " THEN StripBlanks(SubSeq(d, 1, Len(d) - 1))
    ELSE d

\* JiraBranchParser.suggest_branch_name (lines 129-146): the type lower-cased,
\* "feature" when it is no common type; the description without the characters
\* outside [a-zA-Z0-9\s], stripped, its blanks dashed, lower-cased.
suggest_branch_name(jira_issue, branch_type, description) ==
    LET type == IF Lower(branch_type) \in COMMON_BRANCH_TYPES
                THEN Lower(branch_type)
                ELSE <<"f", "e", "a", "t", "u", "r", "e">>
        kept == SelectSeq(description, LAMBDA c : c \in Letters \cup Digits \cup {" "})
        desc == Lower(DashBlanks(StripBlanks(kept)))
    IN  IF jira_issue = <<>> THEN <<>>
        ELSE IF description # <<>> THEN type \o <<"/">> \o jira_issue \o <<"-">> \o desc
        ELSE type \o <<"/">> \o jira_issue

(***************************************************************************)
(* The world of the model.                                                 *)
(***************************************************************************)
Paths == {"r1", "r2"}

\* The branches a working tree may have checked out: one with an issue key in
\* both parsers, one without, one in which only the detector finds the key.
\* None is the unborn HEAD (get_current_branch returns None).
BranchNames ==
    { <<"f", "/", "A", "-", "1">>, <<"w">>, <<"A", "-", "1", "f">> }

Issues == {extract_jira_issue(b) : b \in BranchNames} \ {None}

\* The clock advances in steps of TickSeconds; the process's local time is the
\* store's UTC time plus the zone offset.
TickSeconds == 45

VARIABLES
    \* the store (database/models.py)
    repositories,       \* sequence of rows; the id is the index
    work_sessions,      \* sequence of rows; the id is the index
    activities,         \* sequence of rows
    orphan_records,     \* set of rows
    orphan_seq,         \* AUTOINCREMENT counter of orphan_records
    \* the environment
    head,               \* path -> checked-out branch, None when unborn
    log_tail,           \* path -> newest commit id in .git/logs/HEAD, 0 when empty
    remote,             \* issue -> status at the tracker
    clock,              \* UTC seconds
    \* the process (DevPeaceActivityMonitor, GitActivityMonitor)
    phase,              \* "down", "up", "stopped" (stop_monitoring has returned)
    active_sessions,    \* dict repo_path -> session_id, in insertion order
    first_commits,
    monitored_paths,
    tracked_repos,
    tracked_branches,
    git_operations,
    jira_client,        \* FALSE: the client is None
    \* the threads
    w,                  \* the observer thread: the handler it has just run
    m,                  \* the main thread: its stack of stop_monitoring frames
    \* the installation: its configuration, its time zone, its repositories,
    \* and the budgets of the model for it; it never changes
    world,
    \* counters of the model
    starts,
    user_actions,
    faults              \* store writes that have failed

store == <<repositories, work_sessions, activities, orphan_records, orphan_seq>>
env == <<head, log_tail, remote, clock>>
memory == <<active_sessions, first_commits, monitored_paths, tracked_repos,
            tracked_branches, git_operations, jira_client>>
budgets == <<starts, user_actions, faults>>
vars == <<store, env, memory, phase, w, m, world, budgets>>

\* StatusManager.status_rules, and the offset of the process's local time from
\* UTC in seconds.
status_rules == world.status_rules
tz == world.tz

\* self.is_running
is_running == phase = "up"

(***************************************************************************)
(* The store: DatabaseManager.                                             *)
(***************************************************************************)
\* get_repository_by_path: the id of the row, 0 for None.
get_repository_by_path(path) ==
    LET ids == {i \in 1..Len(repositories) : repositories[i].path = path}
    IN  IF ids = {} THEN 0 ELSE Min(ids)

\* add_repository: INSERT INTO repositories (path, name).
add_repository(path) ==
    Append(repositories, [path |-> path, is_active |-> TRUE])

\* start_work_session: the row INSERTed; start_time defaults to
\* CURRENT_TIMESTAMP (UTC), total_minutes to 0, is_active to 1, status to 'active'.
NewSession(repository_id, branch_name, jira_issue) ==
    [repository_id |-> repository_id, branch_name |-> branch_name,
     jira_issue |-> jira_issue, start_time |-> clock, end_time |-> None,
     total_minutes |-> 0, is_active |-> TRUE, status |-> "active",
     original_jira_status |-> NoStatus, current_jira_status |-> NoStatus]

\* branch_name TEXT NOT NULL: the INSERT raises sqlite3.IntegrityError.
StartRaises(branch_name) == branch_name = None

start_work_session(sessions, repository_id, branch_name, jira_issue) ==
    Append(sessions, NewSession(repository_id, branch_name, jira_issue))

\* update_session_jira_status: patch semantics, None leaves the column alone.
update_session_jira_status(sessions, session_id, original_status, current_status) ==
    [sessions EXCEPT
        ![session_id].original_jira_status =
            IF original_status # NoStatus THEN original_status ELSE @,
        ![session_id].current_jira_status =
            IF current_status # NoStatus THEN current_status ELSE @]

\* The activities recorded by the file-modification and commit handlers.
Recorded ==
    {k \in 1..Len(activities) : activities[k].activity_type \in {"file_modified", "commit"}}

\* add_activity: the row INSERTed.
add_activity(acts, session_id, activity_type, commit_hash) ==
    Append(acts, [session_id |-> session_id, activity_type |-> activity_type,
                  commit_hash |-> commit_hash])

\* int(x / 60) of Python: truncation toward zero.
TruncDiv(a, b) == IF a >= 0 THEN a \div b ELSE -((-a) \div b)

\* datetime.now(): the process's local time.
LocalNow == clock + tz

TotalMinutes(now, start_time) == TruncDiv(now - start_time, 60)

\* A faulty end_work_session: the UPDATE without "is_active = 0".
end_work_session_keeps_active(session_id) ==
    [work_sessions EXCEPT
        ![session_id].end_time = <<LocalNow>>,
        ![session_id].total_minutes =
            TotalMinutes(LocalNow, work_sessions[session_id].start_time),
        ![session_id].status = "completed"]

\* end_work_session: UPDATE ... WHERE id = ?, whatever the row's is_active.
end_work_session(session_id) ==
    [work_sessions EXCEPT
        ![session_id].end_time = <<LocalNow>>,
        ![session_id].total_minutes =
            TotalMinutes(LocalNow, work_sessions[session_id].start_time),
        ![session_id].is_active = FALSE,
        ![session_id].status = "completed"]

ActiveIds(repository_id) ==
    {i \in 1..Len(work_sessions) :
        work_sessions[i].repository_id = repository_id /\ work_sessions[i].is_active}

\* A faulty query: the latest active session, of whatever repository.
get_active_session_for_repo_any(repository_id) ==
    LET ids == {i \in 1..Len(work_sessions) : work_sessions[i].is_active}
        latest == {i \in ids :
                     \A j \in ids : work_sessions[j].start_time <= work_sessions[i].start_time}
    IN  IF ids = {} THEN NoSession ELSE CHOOSE i \in latest : TRUE

\* get_active_session_for_repo: ... WHERE repository_id = ? AND is_active = 1
\* ORDER BY start_time DESC LIMIT 1; the id of the row, 0 for None.
get_active_session_for_repo(repository_id) ==
    LET ids == ActiveIds(repository_id)
        latest == {i \in ids :
                     \A j \in ids : work_sessions[j].start_time <= work_sessions[i].start_time}
    IN  IF ids = {} THEN NoSession ELSE CHOOSE i \in latest : TRUE

\* A faulty count: the activities of every session.
count_activities_of_all(acts, session_id) == Len(acts)

\* SELECT COUNT(*) FROM activities WHERE session_id = ?.
count_activities(acts, session_id) ==
    Cardinality({k \in 1..Len(acts) : acts[k].session_id = session_id})

\* A faulty create_orphan_record: the INSERT with the id of the session to come.
create_orphan_record_next_session(sessions, acts, session_id, branch_name) ==
    orphan_records \cup
    {[id |-> orphan_seq + 1, session_id |-> session_id + 1, branch_name |-> branch_name,
      total_minutes |-> sessions[session_id].total_minutes,
      activities_count |-> count_activities(acts, session_id),
      assigned_issue |-> None, status |-> "orphaned"]}

\* create_orphan_record: snapshots the session's activity count and total_minutes.
create_orphan_record(sessions, acts, session_id, branch_name) ==
    orphan_records \cup
    {[id |-> orphan_seq + 1, session_id |-> session_id, branch_name |-> branch_name,
      total_minutes |-> sessions[session_id].total_minutes,
      activities_count |-> count_activities(acts, session_id),
      assigned_issue |-> None, status |-> "orphaned"]}

\* get_orphan_records: WHERE status = 'orphaned'.
get_orphan_records == {o \in orphan_records : o.status = "orphaned"}

(***************************************************************************)
(* The in-memory dict active_sessions, in insertion order.                 *)
(***************************************************************************)
ASIndex(path) ==
    LET ks == {k \in 1..Len(active_sessions) : active_sessions[k].path = path}
    IN  IF ks = {} THEN 0 ELSE Min(ks)

\* A faulty lookup: without an entry, the session active in the store.
ASGet_or_store(path) ==
    IF ASIndex(path) # 0 THEN active_sessions[ASIndex(path)].sid
    ELSE IF get_repository_by_path(path) = 0 THEN NoSession
    ELSE get_active_session_for_repo(get_repository_by_path(path))

\* self.active_sessions.get(repo_path)
ASGet(path) ==
    IF ASIndex(path) = 0 THEN NoSession ELSE active_sessions[ASIndex(path)].sid

\* self.active_sessions[repo_path] = session_id
ASSet(path, sid) ==
    IF ASIndex(path) = 0
    THEN Append(active_sessions, [path |-> path, sid |-> sid])
    ELSE [active_sessions EXCEPT ![ASIndex(path)].sid = sid]

\* del self.active_sessions[repo_path]
ASDel(path) ==
    SelectSeq(active_sessions, LAMBDA e : e.path # path)

(***************************************************************************)
(* The configuration and the tracker.                                      *)
(***************************************************************************)
Statuses == {"To Do", "In Progress", "In Review", "Done"}

\* A status_automation document with automation, auto-revert and the rules of
\* work start and first commit on.
Automated ==
    [enabled |-> TRUE, auto_revert_on_session_end |-> TRUE,
     rules |-> [on_work_start |-> [enabled |-> TRUE, from_status |-> {"To Do"},
                                   to_status |-> "In Progress"],
                on_first_commit |-> [enabled |-> TRUE,
                                     from_status |-> {"To Do", "In Progress"},
                                     to_status |-> "In Review"],
                on_work_complete |-> [enabled |-> TRUE, from_status |-> {"In Progress"},
                                      to_status |-> "Done"]]]

\* The default of _load_status_rules (lines 25-45): automation off.
Default ==
    [enabled |-> FALSE, auto_revert_on_session_end |-> FALSE,
     rules |-> [on_work_start |-> [enabled |-> TRUE, from_status |-> {"To Do"},
                                   to_status |-> "In Progress"],
                on_first_commit |-> [enabled |-> FALSE, from_status |-> {"To Do"},
                                     to_status |-> "In Progress"],
                on_work_complete |-> [enabled |-> FALSE, from_status |-> {"In Progress"},
                                      to_status |-> "Done"]]]

\* An installation and the budgets of the model for it: the rules document, the
\* clients _init_jira_client may return (None without credentials or
\* connection), the time zone, the repositories on disk, the paths given to
\* `start --paths` (none: the repositories of the store), the refs of the
\* repositories, how many
\* sessions, process starts, ticks, commits, recorded activities
\* and orphan actions the model follows, the message `git commit` is given in
\* this installation and the setting commit_comment_threshold (default 1).
Tracked ==
    [status_rules |-> Automated, clients |-> {TRUE}, tz |-> 0, repos |-> {"r1"},
     paths |-> {}, refs |-> {<<"f", "/", "A", "-", "1">>, <<"w">>},
     sessions |-> MaxSessions, starts |-> 1, ticks |-> 0, commits |-> MaxCommits,
     activities |-> MaxActivities, user_actions |-> 0,
     faults |-> 0,
     message |-> <<"a", "\n">>, commit_comment_threshold |-> 1]

Restarted ==
    [status_rules |-> Default, clients |-> {FALSE}, tz |-> 0, repos |-> {"r1"},
     paths |-> {}, refs |-> BranchNames \cup {None},
     sessions |-> MaxSessions, starts |-> MaxStarts, ticks |-> 0, commits |-> 0,
     activities |-> MaxActivities, user_actions |-> 0,
     faults |-> 0,
     message |-> <<"a", "\n">>, commit_comment_threshold |-> 1]

Timed ==
    [status_rules |-> Default, clients |-> {FALSE}, tz |-> -10800, repos |-> {"r1"},
     paths |-> {}, refs |-> {<<"w">>, <<"A", "-", "1", "f">>},
     sessions |-> MaxSessions, starts |-> 1, ticks |-> MaxTicks, commits |-> 0,
     activities |-> MaxActivities, user_actions |-> MaxUserActions,
     faults |-> 0,
     message |-> <<"a", "\n">>, commit_comment_threshold |-> 1]

Shared ==
    [status_rules |-> Default, clients |-> {FALSE}, tz |-> 0, repos |-> Paths,
     paths |-> Paths, refs |-> {<<"f", "/", "A", "-", "1">>, <<"w">>},
     sessions |-> MaxSessions + 1, starts |-> 1, ticks |-> 0, commits |-> 0,
     activities |-> 0, user_actions |-> 0,
     faults |-> 0,
     message |-> <<"a", "\n">>, commit_comment_threshold |-> 1]

\* Automation on across a restart of the supervisor, on two branches of one issue.
Resumed ==
    [status_rules |-> Automated, clients |-> {TRUE}, tz |-> 0, repos |-> {"r1"},
     paths |-> {}, refs |-> {<<"f", "/", "A", "-", "1">>, <<"A", "-", "1", "f">>},
     sessions |-> MaxSessions, starts |-> MaxStarts, ticks |-> 0, commits |-> 0,
     activities |-> 0, user_actions |-> 0,
     faults |-> 0,
     message |-> <<"a", "\n">>, commit_comment_threshold |-> 1]

\* Automation on across a restart of the supervisor, on one branch with a commit.
Replayed ==
    [status_rules |-> Automated, clients |-> {TRUE}, tz |-> 0, repos |-> {"r1"},
     paths |-> {}, refs |-> {<<"f", "/", "A", "-", "1">>},
     sessions |-> 1, starts |-> MaxStarts, ticks |-> 0, commits |-> MaxCommits,
     activities |-> MaxActivities + 1, user_actions |-> 0,
     faults |-> 0,
     message |-> <<"a", "\n">>, commit_comment_threshold |-> 1]

Worlds == {Tracked, Restarted, Timed, Shared, Resumed, Replayed}

\* An installation whose store refuses one write.
Faulty ==
    [status_rules |-> Default, clients |-> {FALSE}, tz |-> 0, repos |-> {"r1"},
     paths |-> {}, refs |-> {<<"f", "/", "A", "-", "1">>, <<"w">>},
     sessions |-> MaxSessions, starts |-> 1, ticks |-> MaxTicks, commits |-> MaxCommits,
     activities |-> MaxActivities, user_actions |-> MaxUserActions,
     faults |-> MaxFaults,
     message |-> <<"a", "\n">>, commit_comment_threshold |-> 1]

\* The observer thread between two events.  After a handler, and until it
\* returns, w tells what the handler did: the event (kind, path, branch,
\* old_branch, issue), the session it ended (end_sid) and the one it started or
\* used (sid), the original status it captured (orig), the statuses it
\* transitioned the ended session's issue back to (reverted) and the session's
\* issue on to (moved), the issue it called add_comment
\* with (commented), and how it
\* went (outcome).
WIdle ==
    [pc |-> "idle", kind |-> "none", path |-> "none", branch |-> None,
     old_branch |-> None, issue |-> None, end_sid |-> NoSession, sid |-> NoSession,
     orig |-> NoStatus, reverted |-> NoStatus, moved |-> NoStatus,
     commented |-> None, outcome |-> "none"]

\* The state before the first process: an empty store but for the repository,
\* nothing running, in one of the installations ws.
Boot(ws) ==
    /\ repositories = <<[path |-> "r1", is_active |-> TRUE]>>
    /\ work_sessions = <<>>
    /\ activities = <<>>
    /\ orphan_records = {}
    /\ orphan_seq = 0
    /\ head = [p \in Paths |-> <<"w">>]
    /\ log_tail = [p \in Paths |-> 0]
    /\ remote = [i \in Issues |-> "To Do"]
    /\ clock = 0
    /\ phase = "down"
    /\ active_sessions = <<>>
    /\ first_commits = {}
    /\ monitored_paths = {}
    /\ tracked_repos = {}
    /\ tracked_branches = [p \in Paths |-> None]
    /\ git_operations = {}
    /\ world \in ws
    /\ jira_client = FALSE
    /\ w = WIdle
    /\ m = <<>>
    /\ starts = 0
    /\ user_actions = 0
    /\ faults = 0

Init == Boot(Worlds)

(***************************************************************************)
(* The tracker and the rules engine: JiraClient, StatusManager.  `rem` is  *)
(* the tracker's state when the call is made; `up` and `ok` are the        *)
(* tracker's answers to one call: whether the fetch and the transition     *)
(* succeed.                                                                *)
(***************************************************************************)
\* JiraClient.get_issue: the issue's status; None when the client is None or not
\* connected, or the tracker raises.
get_issue(rem, issue, up) == IF jira_client /\ up THEN rem[issue] ELSE NoStatus

\* StatusManager._apply_status_rule: whether transition_issue is called.
RuleAttempts(rule, rem, issue, up) ==
    /\ get_issue(rem, issue, up) # NoStatus
    /\ rule.from_status # {} => get_issue(rem, issue, up) \in rule.from_status
    /\ rule.to_status # NoStatus

\* StatusManager.on_work_start / on_first_commit: whether the rule named `event`
\* gets to call transition_issue.
EventAttempts(event, rem, issue, up) ==
    /\ status_rules.enabled
    /\ jira_client
    /\ status_rules.rules[event].enabled
    /\ RuleAttempts(status_rules.rules[event], rem, issue, up)

\* JiraClient.transition_issue, when it succeeds.
transition_issue(rem, issue, to_status) == [rem EXCEPT ![issue] = to_status]

\* A faulty on_session_end: the transition also when the issue is already in its
\* original status.
SessionEndAttempts_always(rem, issue, original_status, up) ==
    /\ status_rules.enabled
    /\ jira_client
    /\ status_rules.auto_revert_on_session_end
    /\ get_issue(rem, issue, up) # NoStatus

\* StatusManager.on_session_end: whether transition_issue is called.
SessionEndAttempts(rem, issue, original_status, up) ==
    /\ status_rules.enabled
    /\ jira_client
    /\ status_rules.auto_revert_on_session_end
    /\ get_issue(rem, issue, up) # NoStatus
    /\ get_issue(rem, issue, up) # original_status

\* The answers of the tracker to the calls of one handler: the fetch and the
\* transition of the auto-revert, the fetch before on_work_start, the fetch and
\* the transition of the rule, the fetch after it.
Calls == {"up_revert", "ok_revert", "up_before", "up_rule", "ok_rule", "up_after"}
Answers(calls) == {[c \in Calls |-> c \in calls /\ f[c]] : f \in [calls -> BOOLEAN]}

(***************************************************************************)
(* _end_work_session (lines 417-451), run by either thread.                *)
(***************************************************************************)
NoSnap == [found |-> FALSE, jira_issue |-> None, original_jira_status |-> NoStatus]

\* Lines 421-428: the first entry of active_sessions holding session_id whose
\* repository exists gives the repository's active session; None otherwise.
EndSnapshot(session_id) ==
    LET ks == {k \in 1..Len(active_sessions) :
                 /\ active_sessions[k].sid = session_id
                 /\ get_repository_by_path(active_sessions[k].path) # 0}
    IN  IF ks = {} THEN NoSnap
        ELSE LET s == get_active_session_for_repo(
                          get_repository_by_path(active_sessions[Min(ks)].path))
             IN  IF s = NoSession THEN NoSnap
                 ELSE [found |-> TRUE, jira_issue |-> work_sessions[s].jira_issue,
                       original_jira_status |-> work_sessions[s].original_jira_status]

\* Line 435: if session and session.jira_issue and session.original_jira_status.
RevertNeeded(snap) ==
    snap.found /\ snap.jira_issue # None /\ snap.original_jira_status # NoStatus

\* The tracker calls _end_work_session(session_id) makes.
EndCalls(session_id) ==
    IF session_id # NoSession /\ RevertNeeded(EndSnapshot(session_id))
    THEN {"up_revert", "ok_revert"} ELSE {}

\* The entry points of the rules engine _end_work_session(session_id) invokes:
\* on_session_end at line 438 and no other.
EndEntryPoints(session_id) ==
    IF EndCalls(session_id) # {} THEN {"on_session_end"} ELSE {}

\* A faulty _end_work_session: the auto-revert first, and the session ended only
\* when no revert was due or the revert succeeded.
EndEffect_revert_first(session_id, t) ==
    LET snap == EndSnapshot(session_id)
        done == /\ RevertNeeded(snap)
                /\ SessionEndAttempts(remote, snap.jira_issue,
                                      snap.original_jira_status, t["up_revert"])
                /\ t["ok_revert"]
    IN  [sessions |-> IF RevertNeeded(snap) /\ ~done THEN work_sessions
                     ELSE end_work_session(session_id),
         remote |-> IF done
                    THEN transition_issue(remote, snap.jira_issue,
                                          snap.original_jira_status)
                    ELSE remote,
         reverted |-> IF done THEN snap.original_jira_status ELSE NoStatus]

\* What _end_work_session(session_id) leaves, the tracker answering t: the
\* store's end_work_session (line 430), then status_manager.on_session_end
\* (lines 435-444).  reverted is the status a transition was made to, if any.
EndEffect(session_id, t) ==
    LET snap == EndSnapshot(session_id)
        done == /\ RevertNeeded(snap)
                /\ SessionEndAttempts(remote, snap.jira_issue,
                                      snap.original_jira_status, t["up_revert"])
                /\ t["ok_revert"]
    IN  [sessions |-> end_work_session(session_id),
         remote |-> IF done
                    THEN transition_issue(remote, snap.jira_issue,
                                          snap.original_jira_status)
                    ELSE remote,
         reverted |-> IF done THEN snap.original_jira_status ELSE NoStatus]

\* Line 430 raises, the store refusing the write: the except of lines 449-451
\* logs it; nothing is ended and nothing reverted.
EndFailed == [sessions |-> work_sessions, remote |-> remote, reverted |-> NoStatus]

\* Whether the write of line 430 may fail now.
WriteFails == IF faults < world.faults THEN BOOLEAN ELSE {FALSE}

\* No session to end.
NoEnd == [sessions |-> work_sessions, remote |-> remote, reverted |-> NoStatus]

(***************************************************************************)
(* The start of a session: the second half of _handle_repository_entry     *)
(* (lines 183-229) and of _handle_branch_change (lines 253-300).           *)
(***************************************************************************)
\* The tracker calls the start of a session on `branch` with `issue` makes.
StartCalls(branch, issue) ==
    IF StartRaises(branch) \/ issue = None THEN {}
    ELSE {"up_before", "up_rule", "ok_rule", "up_after"}

\* A faulty start: the session keeps its issue key only when the tracker knows
\* the issue.
StartEffect_issue_from_tracker(sessions, rem, kind, p, rid, branch, issue, t) ==
    LET sid == Len(sessions) + 1
        inserted == start_work_session(sessions, rid, branch,
                                       IF issue # None /\ get_issue(rem, issue, t["up_before"]) = NoStatus
                                       THEN None ELSE issue)
        acts == add_activity(activities, sid,
                             IF kind = "entry" THEN "repo_entered" ELSE "branch_changed",
                             0)
        orig == IF issue = None THEN NoStatus ELSE get_issue(rem, issue, t["up_before"])
        success == /\ issue # None
                   /\ EventAttempts("on_work_start", rem, issue, t["up_rule"])
                   /\ t["ok_rule"]
        rem1 == IF success
                THEN transition_issue(rem, issue, status_rules.rules.on_work_start.to_status)
                ELSE rem
        after == IF issue = None THEN NoStatus ELSE get_issue(rem1, issue, t["up_after"])
        updated == IF orig = NoStatus THEN inserted
                   ELSE IF success
                   THEN IF after # NoStatus
                        THEN update_session_jira_status(inserted, sid, orig, after)
                        ELSE inserted
                   ELSE update_session_jira_status(inserted, sid, orig, orig)
    IN  IF StartRaises(branch)
        THEN [raised |-> TRUE, sid |-> NoSession, sessions |-> sessions,
              activities |-> activities, map |-> active_sessions, remote |-> rem,
              orphans |-> orphan_records, orphan_seq |-> orphan_seq,
              orig |-> NoStatus, moved |-> NoStatus]
        ELSE [raised |-> FALSE, sid |-> sid, sessions |-> updated,
              activities |-> acts, map |-> ASSet(p, sid), remote |-> rem1,
              orphans |-> IF issue = None
                          THEN create_orphan_record(inserted, acts, sid, branch)
                          ELSE orphan_records,
              orphan_seq |-> IF issue = None THEN orphan_seq + 1 ELSE orphan_seq,
              orig |-> orig,
              moved |-> IF success THEN status_rules.rules.on_work_start.to_status ELSE NoStatus]

\* What the start leaves, from the store's sessions and the tracker's state rem
\* the end of the previous session left.  The IntegrityError of a None branch is
\* caught by the handler's except, which ends the handling.
StartEffect(sessions, rem, kind, p, rid, branch, issue, t) ==
    LET sid == Len(sessions) + 1
        inserted == start_work_session(sessions, rid, branch, issue)
        acts == add_activity(activities, sid,
                             IF kind = "entry" THEN "repo_entered" ELSE "branch_changed",
                             0)
        orig == IF issue = None THEN NoStatus ELSE get_issue(rem, issue, t["up_before"])
        success == /\ issue # None
                   /\ EventAttempts("on_work_start", rem, issue, t["up_rule"])
                   /\ t["ok_rule"]
        rem1 == IF success
                THEN transition_issue(rem, issue, status_rules.rules.on_work_start.to_status)
                ELSE rem
        after == IF issue = None THEN NoStatus ELSE get_issue(rem1, issue, t["up_after"])
        updated == IF orig = NoStatus THEN inserted
                   ELSE IF success
                   THEN IF after # NoStatus
                        THEN update_session_jira_status(inserted, sid, orig, after)
                        ELSE inserted
                   ELSE update_session_jira_status(inserted, sid, orig, orig)
    IN  IF StartRaises(branch)
        THEN [raised |-> TRUE, sid |-> NoSession, sessions |-> sessions,
              activities |-> activities, map |-> active_sessions, remote |-> rem,
              orphans |-> orphan_records, orphan_seq |-> orphan_seq,
              orig |-> NoStatus, moved |-> NoStatus]
        ELSE [raised |-> FALSE, sid |-> sid, sessions |-> updated,
              activities |-> acts, map |-> ASSet(p, sid), remote |-> rem1,
              orphans |-> IF issue = None
                          THEN create_orphan_record(inserted, acts, sid, branch)
                          ELSE orphan_records,
              orphan_seq |-> IF issue = None THEN orphan_seq + 1 ELSE orphan_seq,
              orig |-> orig,
              moved |-> IF success THEN status_rules.rules.on_work_start.to_status ELSE NoStatus]

(***************************************************************************)
(* The observer thread.  A filesystem event is classified by               *)
(* GitActivityMonitor and handed to the handler of                         *)
(* DevPeaceActivityMonitor, which runs to its end.  Nothing else happens   *)
(* between a handler's last statement and its return.                      *)
(***************************************************************************)
Quiet == w.pc = "idle"

CanDispatch(p) ==
    /\ phase = "up"
    /\ Quiet
    /\ p \in monitored_paths

\* A handler that neither ends nor starts a session.
Finished(kind, p, branch, sid, outcome) ==
    [WIdle EXCEPT !.pc = "done", !.kind = kind, !.path = p, !.branch = branch,
                  !.issue = extract_jira_issue(branch), !.sid = sid,
                  !.outcome = outcome]

\* The handler ends the existing session, if any, and starts one on `branch`;
\* _handle_file_modification then records its activity (lines 311-321).
Handoff(kind, p, rid, old_branch, branch, existing) ==
    /\ Len(work_sessions) < world.sessions
    /\ \E issue \in {extract_jira_issue(branch)} :
       \E t \in Answers(EndCalls(existing) \cup StartCalls(branch, issue)) :
       \E fails \in IF existing # NoSession THEN WriteFails ELSE {FALSE} :
       \E e \in {IF existing = NoSession THEN NoEnd
                 ELSE IF fails THEN EndFailed ELSE EndEffect(existing, t)} :
       \E s \in {StartEffect(e.sessions, e.remote, kind, p, rid, branch, issue, t)} :
          /\ work_sessions' = s.sessions
          /\ remote' = s.remote
          /\ active_sessions' = s.map
          /\ faults' = IF fails THEN faults + 1 ELSE faults
          /\ activities' =
                IF kind = "file" /\ ~s.raised
                THEN add_activity(s.activities, s.sid, "file_modified", 0)
                ELSE s.activities
          /\ orphan_records' = s.orphans
          /\ orphan_seq' = s.orphan_seq
          /\ w' = [pc |-> "done", kind |-> kind, path |-> p, branch |-> branch,
                   old_branch |-> old_branch, issue |-> issue, end_sid |-> existing,
                   sid |-> s.sid, orig |-> s.orig, reverted |-> e.reverted,
                   moved |-> s.moved, commented |-> None,
                   outcome |-> IF s.raised THEN "raised" ELSE "started"]

\* A faulty guard: an entry never continues the session it finds.
SameBranch_never(existing, branch_name) == FALSE

\* Lines 171-180: the repository has an active session, on the branch entered.
SameBranch(existing, branch_name) ==
    existing # NoSession /\ work_sessions[existing].branch_name = branch_name

\* on_opened of .git/HEAD or .git/index: GitActivityMonitor._handle_repository_entry,
\* then DevPeaceActivityMonitor._handle_repository_entry.
RepoEntry(p) ==
    /\ CanDispatch(p)
    /\ p \notin tracked_repos
    /\ tracked_repos' = tracked_repos \cup {p}
    /\ LET known == get_repository_by_path(p) # 0
           rid == IF known THEN get_repository_by_path(p) ELSE Len(repositories) + 1
           existing == get_active_session_for_repo(rid)
       IN  /\ repositories' = IF known THEN repositories ELSE add_repository(p)
           /\ IF SameBranch(existing, head[p])
              THEN /\ active_sessions' = ASSet(p, existing)
                   /\ w' = Finished("entry", p, head[p], existing, "continued")
                   /\ UNCHANGED <<work_sessions, activities, orphan_records, orphan_seq,
                                  remote, faults>>
              ELSE Handoff("entry", p, rid, None, head[p], existing)
    /\ UNCHANGED <<head, log_tail, clock, first_commits, monitored_paths,
                   tracked_branches, git_operations, world, jira_client, phase, m,
                   starts, user_actions>>

\* A faulty classifier: the first observation of a repository is a change.
branch_event_first_is_change(old_branch, new_branch) ==
    IF new_branch = None THEN "ignored"
    ELSE IF old_branch = new_branch THEN "ignored"
    ELSE "change"

\* GitActivityMonitor._handle_branch_change (lines 203-237), old_branch being
\* tracked_branches.get(repo_root) and new_branch the branch read: "ignored"
\* when it returns before line 220, "first" when it returns at line 224,
\* "change" when it reaches the callback.
branch_event(old_branch, new_branch) ==
    IF new_branch = None THEN "ignored"
    ELSE IF old_branch = new_branch THEN "ignored"
    ELSE IF old_branch = None THEN "first"
    ELSE "change"

\* on_modified of .git/HEAD: GitActivityMonitor._handle_branch_change, then
\* DevPeaceActivityMonitor._handle_branch_change.
BranchChange(p) ==
    /\ CanDispatch(p)
    /\ branch_event(tracked_branches[p], head[p]) # "ignored"
    /\ tracked_branches' = [tracked_branches EXCEPT ![p] = head[p]]
    /\ IF branch_event(tracked_branches[p], head[p]) = "first"
       THEN /\ w' = Finished("branch", p, head[p], NoSession, "first")
            /\ UNCHANGED <<store, remote, active_sessions, faults>>
       ELSE IF get_repository_by_path(p) = 0
       THEN /\ w' = Finished("branch", p, head[p], NoSession, "dropped")
            /\ UNCHANGED <<store, remote, active_sessions, faults>>
       ELSE /\ Handoff("branch", p, get_repository_by_path(p), tracked_branches[p],
                       head[p], get_active_session_for_repo(get_repository_by_path(p)))
            /\ UNCHANGED repositories
    /\ UNCHANGED <<head, log_tail, clock, first_commits, monitored_paths,
                   tracked_repos, git_operations, world, jira_client, phase, m,
                   starts, user_actions>>

\* _check_branch_change_on_activity: the session's branch when the checked-out
\* branch differs from it, None when there is nothing to hand off.
StaleBranch(p) ==
    LET rid == get_repository_by_path(p)
        active == IF rid = 0 THEN NoSession ELSE get_active_session_for_repo(rid)
    IN  IF /\ head[p] # None
           /\ ASGet(p) # NoSession
           /\ active # NoSession
           /\ work_sessions[active].branch_name # head[p]
        THEN work_sessions[active].branch_name
        ELSE None

\* on_modified of a file outside .git: GitActivityMonitor._handle_file_modification,
\* then DevPeaceActivityMonitor._handle_file_modification: the lazy branch recheck
\* first, the activity after it.
FileModified(p) ==
    /\ CanDispatch(p)
    /\ Cardinality(Recorded) < world.activities
    /\ IF StaleBranch(p) # None
       THEN Handoff("file", p, get_repository_by_path(p), StaleBranch(p), head[p],
                    get_active_session_for_repo(get_repository_by_path(p)))
       ELSE IF ASGet(p) = NoSession
       THEN /\ w' = Finished("file", p, head[p], NoSession, "dropped")
            /\ UNCHANGED <<work_sessions, activities, orphan_records, orphan_seq,
                           remote, active_sessions, faults>>
       ELSE /\ activities' = add_activity(activities, ASGet(p), "file_modified", 0)
            /\ w' = Finished("file", p, head[p], ASGet(p), "recorded")
            /\ UNCHANGED <<work_sessions, orphan_records, orphan_seq, remote,
                           active_sessions, faults>>
    /\ UNCHANGED <<repositories, head, log_tail, clock, first_commits,
                   monitored_paths, tracked_repos, tracked_branches, git_operations,
                   world, jira_client, phase, m, starts, user_actions>>

\* str.strip() of a message: the newlines at both ends go.
RECURSIVE Strip(_)
Strip(s) ==
    IF s = <<>> THEN s
    ELSE IF Head(s) = "\n" THEN Strip(Tail(s))
    ELSE IF s[Len(s)] = "\n" THEN Strip(SubSeq(s, 1, Len(s) - 1))
    ELSE s

\* GitActivityMonitor._get_commit_message: the stripped message of the commit;
\* None for a commit without one (None and '' are both written <<>>: both are
\* false where the handler tests the message).
get_commit_message(raw) == IF raw = <<>> THEN None ELSE Strip(raw)

\* len(commit_message.split('\n')).
Lines(commit_message) ==
    1 + Cardinality({k \in 1..Len(commit_message) : commit_message[k] = "\n"})

\* A faulty threshold: a message of exactly commit_comment_threshold lines is
\* commented too.
LongMessage_at_threshold(commit_message) ==
    /\ commit_message # None
    /\ Lines(commit_message) >= world.commit_comment_threshold

\* Line 398: the message has more lines than commit_comment_threshold.
LongMessage(commit_message) ==
    /\ commit_message # None
    /\ Lines(commit_message) > world.commit_comment_threshold

\* A faulty target: a session without an issue is commented under its branch.
CommentTarget_branch(p) ==
    LET rid == get_repository_by_path(p)
        session == IF rid = 0 THEN NoSession ELSE get_active_session_for_repo(rid)
    IN  IF session # NoSession /\ jira_client
        THEN IF work_sessions[session].jira_issue # None
             THEN work_sessions[session].jira_issue
             ELSE work_sessions[session].branch_name
        ELSE None

\* Lines 399-403: the issue add_comment is called with, None when it is not
\* called: the repository's active session has no issue, or there is no client.
CommentTarget(p) ==
    LET rid == get_repository_by_path(p)
        session == IF rid = 0 THEN NoSession ELSE get_active_session_for_repo(rid)
    IN  IF session # NoSession /\ jira_client
        THEN work_sessions[session].jira_issue
        ELSE None

\* The session _handle_commit_detection reads the issue of (lines 385-387).
CommitSession(p) ==
    IF get_repository_by_path(p) = 0 THEN NoSession
    ELSE get_active_session_for_repo(get_repository_by_path(p))

\* The tracker calls of the first commit of session sid.
CommitCalls(p, sid) ==
    IF /\ sid \notin first_commits
       /\ CommitSession(p) # NoSession
       /\ work_sessions[CommitSession(p)].jira_issue # None
    THEN {"up_rule", "ok_rule"} ELSE {}

\* on_modified of .git/logs/HEAD: GitActivityMonitor._handle_commit_detection, then
\* DevPeaceActivityMonitor._handle_commit_detection: the activity, and on the
\* first commit of the session status_manager.on_first_commit (lines 381-395),
\* and the comment on the issue (lines 397-412).
Commit(p) ==
    /\ CanDispatch(p)
    /\ Cardinality(Recorded) < world.activities
    /\ log_tail[p] # 0
    /\ <<p, log_tail[p]>> \notin git_operations
    /\ git_operations' = git_operations \cup {<<p, log_tail[p]>>}
    /\ IF ASGet(p) = NoSession
       THEN /\ w' = Finished("commit", p, head[p], NoSession, "dropped")
            /\ UNCHANGED <<activities, first_commits, remote>>
       ELSE /\ activities' = add_activity(activities, ASGet(p), "commit", log_tail[p])
            /\ first_commits' = first_commits \cup {ASGet(p)}
            /\ \E t \in Answers(CommitCalls(p, ASGet(p))) :
                  LET issue == IF CommitSession(p) = NoSession THEN None
                               ELSE work_sessions[CommitSession(p)].jira_issue
                      success == /\ CommitCalls(p, ASGet(p)) # {}
                                 /\ EventAttempts("on_first_commit", remote, issue,
                                                  t["up_rule"])
                                 /\ t["ok_rule"]
                      to_status == status_rules.rules.on_first_commit.to_status
                  IN  /\ remote' = IF success
                                   THEN transition_issue(remote, issue, to_status)
                                   ELSE remote
                      /\ w' = [WIdle EXCEPT
                                  !.pc = "done", !.kind = "commit", !.path = p,
                                  !.branch = head[p], !.issue = issue,
                                  !.sid = ASGet(p),
                                  !.moved = IF success THEN to_status ELSE NoStatus,
                                  !.commented =
                                      IF LongMessage(get_commit_message(world.message))
                                      THEN CommentTarget(p) ELSE None,
                                  !.outcome = IF ASGet(p) \in first_commits
                                              THEN "recorded" ELSE "first"]
    /\ UNCHANGED <<repositories, work_sessions, orphan_records, orphan_seq, head,
                   log_tail, clock, active_sessions, monitored_paths, tracked_repos,
                   tracked_branches, world, jira_client, phase, m, budgets>>

\* The handler returns; the thread is free to take the next event.
WReturn ==
    /\ w.pc = "done"
    /\ w' = WIdle
    /\ UNCHANGED <<store, env, memory, phase, m, budgets, world>>

(***************************************************************************)
(* The main thread.  stop_monitoring runs in the signal handler of          *)
(* handle_daemon, on top of whatever the thread was doing; a second signal *)
(* runs it again on top of the first, which never resumes: the handler     *)
(* ends in sys.exit.  m holds the running frame of stop_monitoring, if     *)
(* any.                                                                    *)
(***************************************************************************)
Top == m[Len(m)]

SetTop(frame) == [m EXCEPT ![Len(m)] = frame]

\* A frame of stop_monitoring at the head of its loop: i is the next item of
\* active_sessions.items(), n the size of the dict when the iteration began.
Frame ==
    [pc |-> "iter", i |-> 1, n |-> Len(active_sessions), end_sid |-> NoSession,
     reverted |-> NoStatus]

\* The process is gone: its memory and its threads with it.
ProcessGone ==
    /\ active_sessions' = <<>>
    /\ first_commits' = {}
    /\ monitored_paths' = {}
    /\ tracked_repos' = {}
    /\ tracked_branches' = [p \in Paths |-> None]
    /\ git_operations' = {}
    /\ jira_client' = FALSE
    /\ w' = WIdle
    /\ m' = <<>>

\* SIGTERM, SIGINT or SIGHUP: signal_handler calls stop_monitoring, which goes on
\* past line 121 while is_running; the loop of line 125 starts.
Signal ==
    /\ is_running
    /\ Quiet
    /\ m # <<Frame>>
    /\ m' = <<Frame>>
    /\ UNCHANGED <<store, env, memory, phase, w, budgets, world>>

\* Line 125: the next item of active_sessions.items().  A dict whose size changed
\* since the iteration began raises RuntimeError, which stop_monitoring does not
\* catch: the process ends without stop_monitoring having returned.
MIter ==
    /\ m # <<>>
    /\ Quiet
    /\ Top.pc = "iter"
    /\ IF Len(active_sessions) # Top.n
       THEN /\ phase' = "down"
            /\ ProcessGone
            /\ UNCHANGED world
       ELSE /\ m' = SetTop(IF Top.i > Top.n
                           THEN [Top EXCEPT !.pc = "observer_stop",
                                            !.end_sid = NoSession,
                                            !.reverted = NoStatus]
                           ELSE [Top EXCEPT !.pc = "end", !.i = @ + 1,
                                            !.end_sid = active_sessions[Top.i].sid,
                                            !.reverted = NoStatus])
            /\ UNCHANGED <<memory, phase, w>>
    /\ UNCHANGED <<store, env, budgets, world>>

\* Line 126: _end_work_session(session_id).
MEnd ==
    /\ m # <<>>
    /\ Quiet
    /\ Top.pc = "end"
    /\ \E t \in Answers(EndCalls(Top.end_sid)) :
       \E fails \in WriteFails :
       \E e \in {IF fails THEN EndFailed ELSE EndEffect(Top.end_sid, t)} :
              /\ work_sessions' = e.sessions
              /\ remote' = e.remote
              /\ faults' = IF fails THEN faults + 1 ELSE faults
              /\ m' = SetTop([Top EXCEPT !.pc = "iter", !.reverted = e.reverted])
    /\ UNCHANGED <<repositories, activities, orphan_records, orphan_seq, head, log_tail,
                   clock, memory, phase, w, starts, user_actions, world>>

\* Lines 129-136: observer.stop() and observer.join(), which returns once the
\* observer thread is out of its handler; stop_monitoring returns, and the signal
\* handler's sys.exit ends the process.
MStop ==
    /\ m # <<>>
    /\ Quiet
    /\ Top.pc = "observer_stop"
    /\ phase' = "stopped"
    /\ active_sessions' = <<>>
    /\ monitored_paths' = {}
    /\ m' = <<>>
    /\ UNCHANGED <<store, env, first_commits, tracked_repos, tracked_branches,
                   git_operations, world, jira_client, w, budgets>>

\* force_end_session(repo_path), lines 464-471, for a path that has a session.
force_end_session(p) ==
    /\ is_running
    /\ Quiet
    /\ m = <<>>
    /\ ASGet(p) # NoSession
    /\ \E t \in Answers(EndCalls(ASGet(p))) :
       \E fails \in WriteFails :
       \E e \in {IF fails THEN EndFailed ELSE EndEffect(ASGet(p), t)} :
              /\ work_sessions' = e.sessions
              /\ remote' = e.remote
              /\ faults' = IF fails THEN faults + 1 ELSE faults
    /\ active_sessions' = ASDel(p)
    /\ UNCHANGED <<repositories, activities, orphan_records, orphan_seq, head, log_tail,
                   clock, first_commits, monitored_paths, tracked_repos,
                   tracked_branches, git_operations, world, jira_client, phase, w, m,
                   starts, user_actions>>

\* get_repository_stats (lines 473-485).
get_repository_stats ==
    [total_repositories |-> Len(repositories),
     active_repositories |-> Cardinality({i \in 1..Len(repositories) :
                                            repositories[i].is_active}),
     active_sessions |-> Len(active_sessions),
     orphan_records |-> Cardinality(get_orphan_records),
     monitored_paths |-> Cardinality(monitored_paths),
     is_running |-> is_running]

(***************************************************************************)
(* The user's orphan actions (cli/interactive.py), on the orphans that     *)
(* get_orphan_records lists.                                               *)
(***************************************************************************)
\* assign_orphan_issue: UPDATE ... SET assigned_issue = ?, status = 'assigned'.
assign_orphan_issue(o, issue) ==
    /\ Quiet
    /\ o \in get_orphan_records
    /\ user_actions < world.user_actions
    /\ user_actions' = user_actions + 1
    /\ orphan_records' = (orphan_records \ {o}) \cup
                         {[o EXCEPT !.assigned_issue = issue, !.status = "assigned"]}
    /\ UNCHANGED <<repositories, work_sessions, activities, orphan_seq, env, memory,
                   phase, w, m, starts, faults, world>>

\* delete_orphan_record: DELETE FROM orphan_records WHERE id = ?.
delete_orphan_record(o) ==
    /\ Quiet
    /\ o \in get_orphan_records
    /\ user_actions < world.user_actions
    /\ user_actions' = user_actions + 1
    /\ orphan_records' = orphan_records \ {o}
    /\ UNCHANGED <<repositories, work_sessions, activities, orphan_seq, env, memory,
                   phase, w, m, starts, faults, world>>

(***************************************************************************)
(* The process and its environment.                                        *)
(***************************************************************************)
\* A new process: DevPeaceActivityMonitor.__init__ and start_monitoring, on the
\* active repositories of the store or on the paths given to `start --paths`.
start_monitoring ==
    /\ phase \in {"down", "stopped"}
    /\ Quiet
    /\ starts < world.starts
    /\ starts' = starts + 1
    /\ phase' = "up"
    /\ active_sessions' = <<>>
    /\ first_commits' = {}
    /\ tracked_repos' = {}
    /\ tracked_branches' = [p \in Paths |-> None]
    /\ git_operations' = {}
    /\ jira_client' \in world.clients
    /\ monitored_paths' =
          IF world.paths = {}
          THEN {repositories[i].path : i \in {j \in 1..Len(repositories) :
                                                 repositories[j].is_active}}
          ELSE world.paths
    /\ m' = <<>>
    /\ UNCHANGED <<store, env, world, w, user_actions, faults>>

\* The process is killed (SIGKILL, power loss): nothing of it runs again.
Kill ==
    /\ phase = "up"
    /\ Quiet
    /\ phase' = "down"
    /\ ProcessGone
    /\ UNCHANGED <<store, env, world, budgets>>

\* git checkout, or git checkout --orphan, which leaves HEAD unborn.
Checkout(p, b) ==
    /\ Quiet
    /\ b # head[p]
    /\ head' = [head EXCEPT ![p] = b]
    /\ UNCHANGED <<store, log_tail, remote, clock, memory, phase, w, m, budgets, world>>

\* The commits made so far.
Commits == {c \in Paths \X (1..MaxCommits) : c[2] <= log_tail[c[1]]}

\* git commit: a new line at the tail of .git/logs/HEAD.
NewCommit(p) ==
    /\ Quiet
    /\ head[p] # None
    /\ Cardinality(Commits) < world.commits
    /\ log_tail' = [log_tail EXCEPT ![p] = @ + 1]
    /\ UNCHANGED <<store, head, remote, clock, memory, phase, w, m, budgets, world>>

\* Time passes.
Tick ==
    /\ Quiet
    /\ clock < world.ticks * TickSeconds
    /\ clock' = clock + TickSeconds
    /\ UNCHANGED <<store, head, log_tail, remote, memory, phase, w, m, budgets, world>>

Watcher ==
    \/ \E p \in Paths : RepoEntry(p)
    \/ \E p \in Paths : BranchChange(p)
    \/ \E p \in Paths : FileModified(p)
    \/ \E p \in Paths : Commit(p)
    \/ WReturn

Main ==
    \/ Signal
    \/ MIter
    \/ MEnd
    \/ MStop
    \/ \E p \in Paths : force_end_session(p)

User ==
    \/ \E o \in orphan_records : assign_orphan_issue(o, <<"A", "-", "2">>)
    \/ \E o \in orphan_records : delete_orphan_record(o)

Environment ==
    \/ start_monitoring
    \/ Kill
    \/ \E p \in world.repos, b \in world.refs : Checkout(p, b)
    \/ \E p \in world.repos : NewCommit(p)
    \/ Tick

Next == Watcher \/ Main \/ User \/ Environment

Spec == Init /\ [][Next]_vars

\* The same program on a store that refuses one write.
FaultInit == Boot({Faulty})

FaultSpec == FaultInit /\ [][Next]_vars

\* One session of an issue under automation.
Flaky ==
    [status_rules |-> Automated, clients |-> {TRUE}, tz |-> 0, repos |-> {"r1"},
     paths |-> {}, refs |-> {<<"f", "/", "A", "-", "1">>},
     sessions |-> 1, starts |-> 1, ticks |-> 0, commits |-> 0,
     activities |-> 0, user_actions |-> 0,
     faults |-> 0,
     message |-> <<"a", "\n">>, commit_comment_threshold |-> 1]

RetryInit == Boot({Flaky})

\* What the threads do of their own once started: a handler returns, and
\* stop_monitoring runs on to its end.
RetryProgram ==
    \/ WReturn
    \/ MIter
    \/ MEnd
    \/ MStop

\* What happens to the process: the filesystem events that start its handlers,
\* the user's commands and signals.
RetryEnvironment ==
    \/ \E p \in Paths : RepoEntry(p)
    \/ \E p \in Paths : BranchChange(p)
    \/ start_monitoring
    \/ Kill
    \/ Signal
    \/ \E p \in Paths : force_end_session(p)
    \/ \E p \in world.repos, b \in world.refs : Checkout(p, b)

RetryNext == RetryProgram \/ RetryEnvironment

\* The threads keep running: whatever the program can do of its own, it does.
RetrySpec == RetryInit /\ [][RetryNext]_vars /\ WF_vars(RetryProgram)

\* An installation with automation on and a tracker client, whose commits
\* carry a message.
Committed ==
    [status_rules |-> Automated, clients |-> {TRUE}, tz |-> 0, repos |-> {"r1"},
     paths |-> {}, refs |-> {<<"f", "/", "A", "-", "1">>, <<"w">>},
     sessions |-> MaxSessions, starts |-> 1, ticks |-> 0, commits |-> MaxCommits,
     activities |-> MaxActivities, user_actions |-> 0,
     faults |-> 0,
     message |-> <<"a", "\n">>, commit_comment_threshold |-> 1]

\* The installations of CommentSpec: no message, one line, two lines, a subject
\* and a body under the default threshold; the messages of several lines under
\* a threshold of 2; and one installation without a tracker client
\* (_init_jira_client returned None).
Commenting ==
    {[Committed EXCEPT !.message = c[1], !.commit_comment_threshold = c[2],
                       !.clients = {c[3]}] :
        c \in {<< <<>>, 1, TRUE >>,
               << <<"a", "\n">>, 1, TRUE >>,
               << <<"a", "\n", "b">>, 1, TRUE >>,
               << <<"a", "\n", "\n", "b", "\n">>, 1, TRUE >>,
               << <<"a", "\n", "b">>, 2, TRUE >>,
               << <<"a", "\n", "\n", "b", "\n">>, 2, TRUE >>,
               << <<"a", "\n", "b">>, 1, FALSE >>}}

\* The session manager with commits: no orphan action, no tick.
CommentNext ==
    \/ Watcher
    \/ Main
    \/ start_monitoring
    \/ Kill
    \/ \E p \in world.repos, b \in world.refs : Checkout(p, b)
    \/ \E p \in world.repos : NewCommit(p)

CommentSpec == Boot(Commenting) /\ [][CommentNext]_vars

\* The classifier alone, GitActivityMonitor with no on_branch_changed callback:
\* on_modified of .git/HEAD, whatever the branch read.
HeadModified(p) ==
    /\ CanDispatch(p)
    /\ tracked_branches' =
          IF branch_event(tracked_branches[p], head[p]) = "ignored"
          THEN tracked_branches
          ELSE [tracked_branches EXCEPT ![p] = head[p]]
    /\ w' = [Finished("branch", p, head[p], NoSession,
                      branch_event(tracked_branches[p], head[p]))
               EXCEPT !.old_branch = tracked_branches[p]]
    /\ UNCHANGED <<store, env, remote, active_sessions, first_commits, monitored_paths,
                   tracked_repos, git_operations, world, jira_client, phase, m,
                   budgets>>

DetectorNext ==
    \/ \E p \in Paths : HeadModified(p)
    \/ WReturn
    \/ start_monitoring
    \/ Kill
    \/ \E p \in world.repos, b \in world.refs : Checkout(p, b)

\* Two working trees, watched by `start --paths`, on every branch and unborn.
DetectorSpec ==
    Boot({[Restarted EXCEPT !.repos = Paths, !.paths = Paths]}) /\ [][DetectorNext]_vars

(***************************************************************************)
(* The watched set: refresh_repositories, and the commands that change the *)
(* repositories of the store while the supervisor runs.                    *)
(***************************************************************************)
\* DevPeaceActivityMonitor.add_repository (`dev-peace add`), for a working tree
\* that is not in the store yet.
monitor_add_repository(p) ==
    /\ Quiet
    /\ p \in world.repos
    /\ get_repository_by_path(p) = 0
    /\ repositories' = add_repository(p)
    /\ UNCHANGED <<work_sessions, activities, orphan_records, orphan_seq, env, memory,
                   phase, w, m, world, budgets>>

\* DatabaseManager.toggle_repository_status, from the interactive menu.
toggle_repository_status(repository_id) ==
    /\ Quiet
    /\ repositories' = [repositories EXCEPT ![repository_id].is_active = ~@]
    /\ UNCHANGED <<work_sessions, activities, orphan_records, orphan_seq, env, memory,
                   phase, w, m, world, budgets>>

\* A faulty refresh: every repository of the store, active or not.
new_paths_any_repository ==
    {repositories[i].path : i \in 1..Len(repositories)} \ monitored_paths

\* Lines 143-147: the paths of the active repositories of the store that are
\* not monitored yet.
new_paths ==
    {repositories[i].path : i \in {j \in 1..Len(repositories) :
                                      repositories[j].is_active}} \ monitored_paths

\* refresh_repositories (lines 138-155): nothing when not running; the new
\* paths are scheduled and appended, no path is unscheduled.
refresh_repositories ==
    /\ Quiet
    /\ m = <<>>
    /\ monitored_paths' = IF is_running THEN monitored_paths \cup new_paths
                          ELSE monitored_paths
    /\ UNCHANGED <<store, env, active_sessions, first_commits, tracked_repos,
                   tracked_branches, git_operations, jira_client, phase, w, m, world,
                   budgets>>

RefreshNext ==
    \/ \E p \in Paths : RepoEntry(p)
    \/ WReturn
    \/ Main
    \/ start_monitoring
    \/ Kill
    \/ \E p \in Paths : monitor_add_repository(p)
    \/ \E i \in 1..Len(repositories) : toggle_repository_status(i)
    \/ refresh_repositories

\* Two working trees, one of them in the store at first; the supervisor is
\* started on the store's active repositories or with `start --paths r1`.
RefreshSpec ==
    /\ Boot({[Restarted EXCEPT !.repos = Paths, !.paths = ps, !.refs = {<<"w">>}] :
                ps \in {{}, {"r1"}}})
    /\ [][RefreshNext]_vars

\* Two working trees under watch, an unborn HEAD among the refs and a store
\* that may refuse one write: handlers of one repository fail next to sessions
\* of the other.
Isolated ==
    [status_rules |-> Default, clients |-> {FALSE}, tz |-> 0, repos |-> Paths,
     paths |-> Paths, refs |-> {<<"w">>, None},
     sessions |-> MaxSessions + 1, starts |-> 1, ticks |-> 0, commits |-> MaxCommits,
     activities |-> MaxActivities, user_actions |-> 0,
     faults |-> MaxFaults,
     message |-> <<"a", "\n">>, commit_comment_threshold |-> 1]

IsolationSpec == Boot({Isolated}) /\ [][CommentNext]_vars

TypeOK ==
    /\ phase \in {"down", "up", "stopped"}
    /\ Len(work_sessions) <= world.sessions
    /\ world \in Worlds
    /\ \A i \in 1..Len(work_sessions) : work_sessions[i].repository_id \in 1..Len(repositories)

(***************************************************************************)
(* The rules engine on its own: StatusManager called with an event, an     *)
(* issue and a tracker that answers one fetch (up) and one transition      *)
(* (ok), under every rules document of EngineDocs.  w holds the call and   *)
(* its result.                                                             *)
(***************************************************************************)
Events == {"on_work_start", "on_first_commit", "on_work_complete"}

\* What a call of the engine did: the statuses transition_issue was called
\* with, in order, and the value returned.
Refused == [attempted |-> <<>>, result |-> FALSE]

\* _apply_status_rule (lines 98-134).
apply_status_rule(rule, rem, issue, up, ok) ==
    IF RuleAttempts(rule, rem, issue, up)
    THEN [attempted |-> <<rule.to_status>>, result |-> ok]
    ELSE Refused

\* A faulty entry point: the rules are applied whether automation is enabled or not.
on_event_ignores_enabled(event, rem, issue, up, ok) ==
    IF ~jira_client THEN Refused
    ELSE IF ~status_rules.rules[event].enabled THEN Refused
    ELSE apply_status_rule(status_rules.rules[event], rem, issue, up, ok)

\* on_work_start, on_first_commit, on_work_complete (lines 60-96).
on_event(event, rem, issue, up, ok) ==
    IF ~status_rules.enabled \/ ~jira_client THEN Refused
    ELSE IF ~status_rules.rules[event].enabled THEN Refused
    ELSE apply_status_rule(status_rules.rules[event], rem, issue, up, ok)

\* on_session_end (lines 136-172).
on_session_end(rem, issue, original_status, up, ok) ==
    IF ~status_rules.enabled \/ ~jira_client THEN Refused
    ELSE IF ~status_rules.auto_revert_on_session_end THEN Refused
    ELSE IF get_issue(rem, issue, up) = NoStatus THEN Refused
    ELSE IF SessionEndAttempts(rem, issue, original_status, up)
    THEN [attempted |-> <<original_status>>, result |-> ok]
    ELSE [attempted |-> <<>>, result |-> TRUE]

\* The rules documents: automation and auto-revert on or off, and for each event
\* a rule that is enabled or not, with an empty, a one-status or a two-status
\* from_status.
EngineTargets ==
    [on_work_start |-> "In Progress", on_first_commit |-> "In Review",
     on_work_complete |-> "Done"]

EngineDocs ==
    {[enabled |-> e, auto_revert_on_session_end |-> a,
      rules |-> [ev \in Events |-> [enabled |-> r, from_status |-> f,
                                    to_status |-> EngineTargets[ev]]]] :
        e \in BOOLEAN, a \in BOOLEAN, r \in BOOLEAN,
        f \in {{}, {"To Do"}, {"To Do", "In Progress"}}}

EngineInit ==
    /\ repositories = <<[path |-> "r1", is_active |-> TRUE]>>
    /\ work_sessions = <<>>
    /\ activities = <<>>
    /\ orphan_records = {}
    /\ orphan_seq = 0
    /\ head = [p \in Paths |-> <<"w">>]
    /\ log_tail = [p \in Paths |-> 0]
    /\ remote \in [Issues -> Statuses]
    /\ clock = 0
    /\ phase = "down"
    /\ active_sessions = <<>>
    /\ first_commits = {}
    /\ monitored_paths = {}
    /\ tracked_repos = {}
    /\ tracked_branches = [p \in Paths |-> None]
    /\ git_operations = {}
    /\ world \in {[Tracked EXCEPT !.status_rules = d] : d \in EngineDocs}
    /\ jira_client \in BOOLEAN
    /\ w = WIdle
    /\ m = <<>>
    /\ starts = 0
    /\ user_actions = 0
    /\ faults = 0

\* The engine's call and its result, and the tracker after it.
EngineCall(kind, issue, original_status, up, ok, r) ==
    /\ w' = [pc |-> "done", kind |-> kind, issue |-> issue,
             original |-> original_status, status |-> get_issue(remote, issue, up),
             ok |-> ok, attempted |-> r.attempted, result |-> r.result]
    /\ remote' = IF r.attempted # <<>> /\ r.result
                 THEN transition_issue(remote, issue, r.attempted[1])
                 ELSE remote
    /\ UNCHANGED <<store, head, log_tail, clock, memory, phase, m, world, budgets>>

EngineEvent(event) ==
    \E issue \in Issues, up \in BOOLEAN, ok \in BOOLEAN :
       EngineCall(event, issue, NoStatus, up, ok, on_event(event, remote, issue, up, ok))

EngineSessionEnd ==
    \E issue \in Issues, original_status \in Statuses, up \in BOOLEAN, ok \in BOOLEAN :
       EngineCall("on_session_end", issue, original_status, up, ok,
                  on_session_end(remote, issue, original_status, up, ok))

EngineNext ==
    \/ \E event \in Events : EngineEvent(event)
    \/ EngineSessionEnd

EngineSpec == EngineInit /\ [][EngineNext]_vars

(***************************************************************************)
(* The duration codec of JiraClient: format_time_spent and                 *)
(* parse_time_spent, on strings written as sequences of characters.        *)
(***************************************************************************)
MaxMinutes == 150

DecimalDigit == <<"0", "1", "2", "3", "4", "5", "6", "7", "8", "9">>

\* str(n) of a natural number, as an f-string renders it.
RECURSIVE Dec(_)
Dec(n) ==
    IF n < 10 THEN <<DecimalDigit[n + 1]>>
    ELSE Dec(n \div 10) \o <<DecimalDigit[(n % 10) + 1]>>

\* int(s) of a string of decimal digits.
RECURSIVE IntOf(_)
IntOf(s) ==
    IF s = <<>> THEN 0
    ELSE 10 * IntOf(SubSeq(s, 1, Len(s) - 1))
         + (CHOOSE d \in 0..9 : DecimalDigit[d + 1] = s[Len(s)])

\* re.search(r'(\d+)u', time_str): the number of the leftmost run of digits
\* that ends right before the unit character u; 0 when there is no match.
SearchUnit(time_str, u) ==
    LET digits == {DecimalDigit[d] : d \in 1..10}
        starts_at == {i \in 1..Len(time_str) :
                        /\ time_str[i] \in digits
                        /\ RunEnd(time_str, i, digits) < Len(time_str)
                        /\ time_str[RunEnd(time_str, i, digits) + 1] = u}
    IN  IF starts_at = {} THEN 0
        ELSE IntOf(SubSeq(time_str, Min(starts_at),
                          RunEnd(time_str, Min(starts_at), digits)))

\* A faulty format_time_spent: the minutes are dropped once there are hours.
format_time_spent_drops_minutes(minutes) ==
    IF minutes <= 0 THEN <<"1", "m">>
    ELSE IF minutes \div 60 > 0 THEN Dec(minutes \div 60) \o <<"h">>
    ELSE Dec(minutes % 60) \o <<"m">>

\* JiraClient.format_time_spent (lines 368-382).
format_time_spent(minutes) ==
    IF minutes <= 0 THEN <<"1", "m">>
    ELSE IF minutes \div 60 > 0 /\ minutes % 60 > 0
    THEN Dec(minutes \div 60) \o <<"h", " ">> \o Dec(minutes % 60) \o <<"m">>
    ELSE IF minutes \div 60 > 0 THEN Dec(minutes \div 60) \o <<"h">>
    ELSE Dec(minutes % 60) \o <<"m">>

\* JiraClient.parse_time_spent (lines 384-407): days of 8 hours, hours,
\* minutes; at least 1.
parse_time_spent(time_str) ==
    LET total_minutes == SearchUnit(time_str, "d") * 8 * 60
                         + SearchUnit(time_str, "h") * 60
                         + SearchUnit(time_str, "m")
    IN  IF total_minutes > 1 THEN total_minutes ELSE 1

\* A duration is formatted for a worklog and the string parsed back.
CodecNext ==
    /\ \E minutes \in 0..MaxMinutes :
          w' = [pc |-> "done", kind |-> "codec", minutes |-> minutes,
                time_spent |-> format_time_spent(minutes),
                parsed |-> parse_time_spent(format_time_spent(minutes))]
    /\ UNCHANGED <<store, env, memory, phase, m, world, budgets>>

CodecSpec == Boot({Tracked}) /\ [][CodecNext]_vars

(***************************************************************************)
(* The branch names suggested for an issue, parsed back.                   *)
(***************************************************************************)
\* The tuples a branch name is suggested for: common branch types, issue keys
\* KEY-N, and descriptions as a user types them.
BranchTuples ==
    { <<"f", "i", "x">>, <<"c", "i">>, <<"t", "e", "s", "t">>, <<"f", "e", "a", "t">> }
    \X { <<"A", "-", "1">>, <<"A", "F", "-", "1", "2">>, <<"W", "-", "2">>,
         <<"F", "W", "-", "2", "1">> }
    \X { <<>>, <<"w">>, <<"a", " ", "w">>, <<"a", " ", " ", "w">>, <<" ", "w", "1">>,
         <<"w", "!">>, <<"A", "-", "w">>, <<"a", "_", "w">>, <<"!">>, <<" ">> }

\* A branch name is suggested and parsed back.
BranchNameNext ==
    /\ \E t \in BranchTuples :
          w' = [pc |-> "done", kind |-> "branch_name", jira_issue |-> t[2],
                branch_type |-> t[1], description |-> t[3],
                branch_name |-> suggest_branch_name(t[2], t[1], t[3]),
                parsed |-> parse_branch(suggest_branch_name(t[2], t[1], t[3]))]
    /\ UNCHANGED <<store, env, memory, phase, m, world, budgets>>

BranchNameSpec == Boot({Tracked}) /\ [][BranchNameNext]_vars

(***************************************************************************)
(* JiraClient.transition_issue against the transitions the tracker offers. *)
(***************************************************************************)
\* A faulty search: the names are compared as they are written.
target_transition_exact_case(transitions, new_status) ==
    LET hits == {k \in 1..Len(transitions) : transitions[k] = new_status}
    IN  IF hits = {} THEN 0 ELSE Min(hits)

\* Lines 217-225: the first transition whose to-name equals new_status without
\* regard to case; transitions is the sequence of the to-names offered, a
\* transition's id its position; 0 for None.
target_transition(transitions, new_status) ==
    LET hits == {k \in 1..Len(transitions) : Lower(transitions[k]) = Lower(new_status)}
    IN  IF hits = {} THEN 0 ELSE Min(hits)

\* JiraClient.transition_issue (lines 194-250): the value returned and the id
\* handed to the tracker's transition_issue that came back without raising (0
\* when there is none).  raises names the tracker call that raises: "issue",
\* "transitions", "transition_issue", or "none".
client_transition_issue(connected, raises, transitions, new_status) ==
    LET found == target_transition(transitions, new_status)
    IN  IF ~connected THEN [result |-> FALSE, executed |-> 0]
        ELSE IF raises \in {"issue", "transitions"} THEN [result |-> FALSE, executed |-> 0]
        ELSE IF found = 0 THEN [result |-> FALSE, executed |-> 0]
        ELSE IF raises = "transition_issue" THEN [result |-> FALSE, executed |-> 0]
        ELSE [result |-> TRUE, executed |-> found]

\* A transition is asked of a client, connected or not, for an issue whose
\* workflow offers up to two transitions.
TransitionNext ==
    /\ \E connected \in BOOLEAN :
       \E raises \in {"none", "issue", "transitions", "transition_issue"} :
       \E names \in SUBSET { <<"D", "o", "n", "e">>, <<"D", "O", "N", "E">>,
                              <<"O", "p", "e", "n">> } :
       \E transitions \in UNION {[1..n -> names] : n \in 0..2} :
       \E new_status \in { <<"d", "o", "n", "e">>, <<"D", "O", "N", "E">>,
                            <<"O", "p", "e", "n">>, <<"T", "o", " ", "D", "o">> } :
          w' = [pc |-> "done", kind |-> "transition", connected |-> connected,
                raises |-> raises, transitions |-> transitions,
                new_status |-> new_status,
                returned |-> client_transition_issue(connected, raises, transitions,
                                                     new_status)]
    /\ UNCHANGED <<store, env, memory, phase, m, world, budgets>>

TransitionSpec == Boot({Tracked}) /\ [][TransitionNext]_vars

(***************************************************************************)
(* The properties.                                                         *)
(***************************************************************************)
\* The OrphanRecords of a session.
OrphansOf(session_id) == {o \in orphan_records : o.session_id = session_id}

Completed(i) ==
    /\ ~work_sessions[i].is_active
    /\ work_sessions[i].status = "completed"
    /\ work_sessions[i].end_time # None

\* C1: in every reachable state every repository has at most one session with
\* is_active = 1 in the store.
C1_AtMostOneActive ==
    \A rid \in 1..Len(repositories) : Cardinality(ActiveIds(rid)) <= 1

\* A handoff has just ended a session of a repository and started the next one.
C1_Witness ==
    /\ w.pc = "done"
    /\ w.outcome = "started"
    /\ w.end_sid # NoSession
    /\ ActiveIds(work_sessions[w.sid].repository_id) = {w.sid}
    /\ ~work_sessions[w.end_sid].is_active

\* C2: when a branch change, or a repository entry on another branch, is handled
\* while the repository has an active session on the old branch, that session
\* ends up completed and exactly one new session is active, on the new branch
\* and with the issue derived from it.
C2_Handoff ==
    (/\ w.pc = "done"
     /\ w.kind \in {"entry", "branch", "file"}
     /\ w.end_sid # NoSession
     /\ \/ w.kind = "entry" /\ work_sessions[w.end_sid].branch_name # w.branch
        \/ w.kind # "entry" /\ work_sessions[w.end_sid].branch_name = w.old_branch)
    => /\ Completed(w.end_sid)
       /\ w.sid # NoSession
       /\ w.sid # w.end_sid
       /\ ActiveIds(work_sessions[w.end_sid].repository_id) = {w.sid}
       /\ work_sessions[w.sid].branch_name = w.branch
       /\ work_sessions[w.sid].jira_issue = w.issue

\* C3: after a repository entry handled while the repository has no active
\* session, whatever the branch reported (None included), the repository has
\* exactly one active session, on that branch, held by active_sessions, with
\* one repo_entered activity.
C3_EntryWhileIdle ==
    (/\ w.pc = "done"
     /\ w.kind = "entry"
     /\ w.outcome # "continued"
     /\ w.end_sid = NoSession)
    => \E s \in 1..Len(work_sessions) :
          /\ ActiveIds(get_repository_by_path(w.path)) = {s}
          /\ work_sessions[s].branch_name = w.branch
          /\ ASGet(w.path) = s
          /\ Cardinality({k \in 1..Len(activities) :
                            /\ activities[k].session_id = s
                            /\ activities[k].activity_type = "repo_entered"}) = 1

\* C4: once stop_monitoring has returned, no session of the store is active.
C4_StoppedMeansEnded ==
    phase = "stopped" => \A i \in 1..Len(work_sessions) : ~work_sessions[i].is_active

\* C5: once a session is completed, no step changes its end_time or its
\* total_minutes.
C5_EndedOnce ==
    [][\A i \in 1..Len(work_sessions) :
          work_sessions[i].status = "completed"
          => /\ work_sessions'[i].end_time = work_sessions[i].end_time
             /\ work_sessions'[i].total_minutes = work_sessions[i].total_minutes]_vars

\* C6: the total_minutes of every completed session is
\* floor((end_time - start_time) / 60), end_time before start_time included.
C6_FloorMinutes ==
    \A i \in 1..Len(work_sessions) :
       work_sessions[i].status = "completed"
       => work_sessions[i].total_minutes =
             (work_sessions[i].end_time[1] - work_sessions[i].start_time) \div 60

\* C7: a session started on a branch from which JiraBranchParser extracts no
\* issue has no jira_issue, and the step that started it created an OrphanRecord
\* referencing it.
C7_NoIssueMeansOrphan ==
    (/\ w.pc = "done"
     /\ w.outcome = "started"
     /\ parser_extract_jira_issue(w.branch) = None)
    => /\ work_sessions[w.sid].jira_issue = None
       /\ OrphansOf(w.sid) # {}

C9_OriginalStatusIffFetched ==
    (w.pc = "done" /\ w.outcome = "started")
    => (work_sessions[w.sid].original_jira_status # NoStatus
        <=> (w.issue # None /\ w.orig # NoStatus))

\* C10: after a successful transition of a session's issue by on_work_start, by
\* on_first_commit or by the auto-revert of the session's end, the session's
\* current_jira_status is the status transitioned to.
C10_CurrentStatusFollows ==
    /\ (w.pc = "done" /\ w.moved # NoStatus /\ work_sessions[w.sid].jira_issue = w.issue)
       => work_sessions[w.sid].current_jira_status = w.moved
    /\ (w.pc = "done" /\ w.reverted # NoStatus)
       => work_sessions[w.end_sid].current_jira_status = w.reverted
    /\ (m # <<>> /\ Top.reverted # NoStatus)
       => work_sessions[Top.end_sid].current_jira_status = Top.reverted

\* The ordered sequence events[E] of the rules document: the rule of the event,
\* when it is enabled.
EventRules(event) ==
    IF status_rules.rules[event].enabled
    THEN <<[from |-> status_rules.rules[event].from_status,
            to |-> status_rules.rules[event].to_status]>>
    ELSE <<>>

\* The transitions the first rule of events[E] whose from holds S asks for.
FirstMatch(event, S) ==
    LET hits == {k \in 1..Len(EventRules(event)) : S \in EventRules(event)[k].from}
    IN  IF hits = {} THEN <<>> ELSE <<EventRules(event)[Min(hits)].to>>

\* C11: with automation enabled, for an event and an issue whose remote status
\* is S, the engine attempts exactly one transition, to the `to` of the first
\* rule of the event whose `from` holds S; when no rule matches, a rule with an
\* empty `from` included, it attempts none and returns false.
C11_FirstMatchingRule ==
    (/\ w.pc = "done"
     /\ w.kind \in Events
     /\ status_rules.enabled
     /\ w.status # NoStatus)
    => /\ w.attempted = FirstMatch(w.kind, w.status)
       /\ FirstMatch(w.kind, w.status) = <<>> => ~w.result

C13_EndInvokesRevert ==
    [][\A i \in 1..Len(work_sessions) :
          (/\ work_sessions[i].is_active
           /\ ~work_sessions'[i].is_active
           /\ work_sessions[i].jira_issue # None
           /\ work_sessions[i].original_jira_status # NoStatus
           /\ status_rules.enabled
           /\ status_rules.auto_revert_on_session_end)
          => /\ EndCalls(i) # {}
             /\ EndSnapshot(i).jira_issue = work_sessions[i].jira_issue
             /\ EndSnapshot(i).original_jira_status
                   = work_sessions[i].original_jira_status]_vars

\* C14: a session never holds two commit activities with the same commit id,
\* also when the supervisor is restarted while the session stays active.
C14_CommitOnce ==
    \A j, k \in 1..Len(activities) :
       (/\ j < k
        /\ activities[j].activity_type = "commit"
        /\ activities[k].activity_type = "commit"
        /\ activities[j].session_id = activities[k].session_id)
       => activities[j].commit_hash # activities[k].commit_hash

\* The commit activities of a session.
CommitsOf(session_id) ==
    {k \in 1..Len(activities) : /\ activities[k].activity_type = "commit"
                                /\ activities[k].session_id = session_id}

\* C15: for a session with an issue key on_first_commit is invoked once over the
\* session's lifetime, when its first commit activity is recorded and for the
\* session's issue: it is not invoked when the session already has a commit
\* activity.
C15_FirstCommitOnce ==
    [][\A p \in Paths :
          (/\ w.pc = "idle"
           /\ w'.pc = "done"
           /\ w'.kind = "commit"
           /\ w'.path = p
           /\ ASGet(p) # NoSession
           /\ work_sessions[ASGet(p)].jira_issue # None
           /\ CommitCalls(p, ASGet(p)) # {})
          => /\ CommitsOf(ASGet(p)) = {}
             /\ w'.issue = work_sessions[ASGet(p)].jira_issue]_vars

\* C16: for one issue key every on_work_start comes before any auto-revert:
\* a handler that starts a session on the key has not, before the start,
\* reverted the key for the session it ended.
C16_WorkStartBeforeRevert ==
    (/\ w.pc = "done"
     /\ w.outcome = "started"
     /\ w.issue # None
     /\ w.moved # NoStatus
     /\ w.end_sid # NoSession
     /\ work_sessions[w.end_sid].jira_issue = w.issue)
    => w.reverted = NoStatus

\* The store's sessions without what the tracker told: original_jira_status and
\* current_jira_status.
Blind(sessions) ==
    [i \in 1..Len(sessions) |->
        [sessions[i] EXCEPT !.original_jira_status = NoStatus,
                            !.current_jira_status = NoStatus]]

\* A tracker that answers nothing, and one that was never touched.
Silent == [c \in Calls |-> FALSE]
Untouched == [i \in Issues |-> "To Do"]

\* The steps that run _end_work_session(i): a handler of the observer thread,
\* the loop of stop_monitoring, force_end_session.
HandlerEnds(i) == w.pc = "idle" /\ w'.pc = "done" /\ w'.end_sid = i

ShutdownEnds(i) ==
    /\ m # <<>>
    /\ Top.pc = "end"
    /\ Top.end_sid = i
    /\ m' # <<>>
    /\ m'[Len(m')].pc = "iter"
    /\ m'[Len(m')].end_sid = i

ForceEnds(i) ==
    \E p \in Paths : /\ ASGet(p) = i
                     /\ active_sessions' = ASDel(p)
                     /\ phase' = phase
                     /\ w' = w
                     /\ m' = m

\* What a handler that has started a session (or failed to) leaves in the store
\* when the tracker answers nothing and told nothing before.
StartedBlind ==
    LET p == w'.path
        rid == IF get_repository_by_path(p) # 0 THEN get_repository_by_path(p)
               ELSE Len(repositories) + 1
        ended == IF w'.end_sid # NoSession THEN end_work_session(w'.end_sid)
                 ELSE work_sessions
        s == StartEffect(Blind(ended), Untouched, w'.kind, p, rid, w'.branch,
                         w'.issue, Silent)
    IN  [sessions |-> Blind(s.sessions),
         activities |-> IF w'.kind = "file" /\ ~s.raised
                        THEN add_activity(s.activities, s.sid, "file_modified", 0)
                        ELSE s.activities,
         orphans |-> s.orphans]

\* C17: the tracker's answers do not influence the local structure: after every
\* step that calls the tracker (the start of a session, the end of one, the
\* first commit) the sessions, but for original_jira_status and
\* current_jira_status, the activities and the orphan records are what they
\* would be with a tracker that answers nothing and never answered before.
C17_TrackerBlind ==
    [][/\ (w.pc = "idle" /\ w'.pc = "done" /\ w'.outcome \in {"started", "raised"})
          => /\ Blind(work_sessions') = StartedBlind.sessions
             /\ activities' = StartedBlind.activities
             /\ orphan_records' = StartedBlind.orphans
       /\ \A i \in 1..Len(work_sessions) :
             (ShutdownEnds(i) \/ ForceEnds(i))
             => /\ Blind(work_sessions') = Blind(end_work_session(i))
                /\ activities' = activities
                /\ orphan_records' = orphan_records
       /\ (w.pc = "idle" /\ w'.pc = "done" /\ w'.kind = "commit"
                         /\ w'.sid # NoSession)
          => /\ work_sessions' = work_sessions
             /\ activities' = add_activity(activities, w'.sid, "commit",
                                           log_tail[w'.path])
             /\ orphan_records' = orphan_records]_vars

\* A handler has ended a session and started one, the tracker having applied
\* both the revert and the transition of on_work_start.
C17_Witness ==
    /\ w.pc = "done"
    /\ w.outcome = "started"
    /\ w.end_sid # NoSession
    /\ w.reverted # NoStatus
    /\ w.moved # NoStatus

\* C18: _end_work_session marks the session completed before the auto-revert is
\* attempted: whatever the revert does, the step leaves the session inactive,
\* completed, with its end time and its duration set.
C18_CompletedWhateverRevert ==
    [][\A i \in 1..Len(work_sessions) :
          (HandlerEnds(i) \/ ShutdownEnds(i) \/ ForceEnds(i))
          => /\ ~work_sessions'[i].is_active
             /\ work_sessions'[i].status = "completed"
             /\ work_sessions'[i].end_time = end_work_session(i)[i].end_time
             /\ work_sessions'[i].end_time # None
             /\ work_sessions'[i].total_minutes
                   = end_work_session(i)[i].total_minutes]_vars

\* A handoff has ended a session whose auto-revert failed: the issue is not in
\* the session's original status, the session is completed.
C18_Witness ==
    /\ w.pc = "done"
    /\ w.end_sid # NoSession
    /\ w.issue = None
    /\ w.reverted = NoStatus
    /\ jira_client
    /\ status_rules.enabled
    /\ status_rules.auto_revert_on_session_end
    /\ work_sessions[w.end_sid].jira_issue # None
    /\ work_sessions[w.end_sid].original_jira_status # NoStatus
    /\ remote[work_sessions[w.end_sid].jira_issue]
          # work_sessions[w.end_sid].original_jira_status
    /\ Completed(w.end_sid)

\* C19: when one store write fails (the write is lost, the handler goes on),
\* the invariants still hold: after the write that ends the current session
\* has failed, every repository still has at most one active session.
C19_OneActiveAfterFault ==
    faults > 0
    => \A rid \in 1..Len(repositories) : Cardinality(ActiveIds(rid)) <= 1

\* The transition of on_work_start was due for session i and was not made:
\* the session recorded an original status that the rule starts from, and its
\* current status is still that one.
StartPending(i) ==
    /\ i <= Len(work_sessions)
    /\ status_rules.enabled
    /\ status_rules.rules.on_work_start.enabled
    /\ work_sessions[i].jira_issue # None
    /\ work_sessions[i].original_jira_status
          \in status_rules.rules.on_work_start.from_status
    /\ work_sessions[i].current_jira_status = work_sessions[i].original_jira_status

\* The issue of session i is where on_work_start moves it.
StartApplied(i) ==
    /\ i <= Len(work_sessions)
    /\ work_sessions[i].jira_issue # None
    /\ remote[work_sessions[i].jira_issue] = status_rules.rules.on_work_start.to_status

\* C20: a tracker side-effect that failed because the tracker was unavailable
\* is retried: a transition of on_work_start that was due and not made is
\* eventually made, as long as the process is running.
C20_FailedStartRetried ==
    \A i \in 1..(MaxSessions + 1) :
       [](StartPending(i) => <>(StartApplied(i) \/ phase # "up"))

\* C21: whenever a session with an issue key ends while automation is enabled,
\* the on_work_complete rules are evaluated (against the issue's current remote
\* status): the step that ends the session invokes on_work_complete.
C21_EndEvaluatesWorkComplete ==
    [][\A i \in 1..Len(work_sessions) :
          (/\ work_sessions[i].is_active
           /\ ~work_sessions'[i].is_active
           /\ work_sessions[i].jira_issue # None
           /\ status_rules.enabled)
          => "on_work_complete" \in EndEntryPoints(i)]_vars

\* The file_modified activities of session i.
FileActivities(acts, i) ==
    {k \in 1..Len(acts) : /\ acts[k].session_id = i
                          /\ acts[k].activity_type = "file_modified"}

\* C22: when a file modification is handled for a repository whose checked-out
\* branch differs from the branch of its active session, the handoff comes
\* before the activity: the old session is completed, a new session on the
\* checked-out branch is the repository's active one, and the file_modified
\* activity is attached to the new session, never to the old one.
C22_FileHandoffFirst ==
    [][\A p \in Paths : \A a \in {CommitSession(p)} :
          (/\ w.pc = "idle" /\ w'.pc = "done" /\ w'.kind = "file" /\ w'.path = p
           /\ a # NoSession
           /\ head[p] # None
           /\ work_sessions[a].branch_name # head[p])
          => /\ Completed(a)'
             /\ w'.sid \notin {NoSession, a}
             /\ work_sessions'[w'.sid].branch_name = head[p]
             /\ ActiveIds(get_repository_by_path(p))' = {w'.sid}
             /\ FileActivities(activities', w'.sid) # {}
             /\ FileActivities(activities', a) = FileActivities(activities, a)]_vars

\* C23: a repository entry on the branch of the repository's active session is
\* ignored: no session is created or ended, no activity and no orphan record is
\* added, the tracker is not called, and the session stays the repository's
\* active session (and is the one active_sessions holds for the path).
C23_SameBranchEntryIgnored ==
    [][\A p \in Paths : \A a \in {CommitSession(p)} :
          (/\ w.pc = "idle" /\ w'.pc = "done" /\ w'.kind = "entry" /\ w'.path = p
           /\ a # NoSession
           /\ work_sessions[a].branch_name = head[p])
          => /\ work_sessions' = work_sessions
             /\ activities' = activities
             /\ orphan_records' = orphan_records
             /\ remote' = remote
             /\ w'.outcome = "continued"
             /\ w'.end_sid = NoSession
             /\ <<w'.orig, w'.moved, w'.reverted>> = <<NoStatus, NoStatus, NoStatus>>
             /\ ActiveIds(get_repository_by_path(p))' = {a}
             /\ ASGet(p)' = a]_vars

\* An entry was handled for a repository whose active session, left by an
\* earlier run, is on the branch checked out.
C23_Witness ==
    /\ w.pc = "done"
    /\ w.kind = "entry"
    /\ w.outcome = "continued"
    /\ w.sid # NoSession
    /\ work_sessions[w.sid].is_active
    /\ work_sessions[w.sid].branch_name = head[w.path]

\* C24: for a session without an issue key no tracker operation is invoked:
\* not when it is started (no fetch, no transition), not when a commit is
\* recorded for it, whatever the message (no transition, no comment), and not
\* when it is ended (no revert).
C24_NoIssueNoTracker ==
    [][/\ (w.pc = "idle" /\ w'.pc = "done" /\ w'.outcome = "started"
                         /\ work_sessions'[w'.sid].jira_issue = None)
          => /\ StartCalls(w'.branch, w'.issue) = {}
             /\ <<w'.orig, w'.moved>> = <<NoStatus, NoStatus>>
             /\ work_sessions'[w'.sid].original_jira_status = NoStatus
             /\ w'.end_sid = NoSession => remote' = remote
       /\ (w.pc = "idle" /\ w'.pc = "done" /\ w'.kind = "commit"
                         /\ w'.sid # NoSession
                         /\ work_sessions[w'.sid].jira_issue = None)
          => /\ CommitCalls(w'.path, w'.sid) = {}
             /\ w'.commented = None
             /\ w'.moved = NoStatus
             /\ remote' = remote
       /\ \A i \in 1..Len(work_sessions) :
             (/\ work_sessions[i].is_active
              /\ ~work_sessions'[i].is_active
              /\ work_sessions[i].jira_issue = None)
             => /\ EndCalls(i) = {}
                /\ (ShutdownEnds(i) \/ ForceEnds(i)) => remote' = remote
                /\ HandlerEnds(i) => w'.reverted = NoStatus]_vars

\* A commit with a message of several lines was recorded for an active session
\* without an issue key, a tracker client being there.
C24_Witness ==
    /\ w.pc = "done"
    /\ w.kind = "commit"
    /\ w.sid # NoSession
    /\ work_sessions[w.sid].is_active
    /\ work_sessions[w.sid].jira_issue = None
    /\ jira_client
    /\ LongMessage(get_commit_message(world.message))

\* A commit is recorded for session i, active and with an issue key.
CommitRecordedFor(i) ==
    /\ w.pc = "idle" /\ w'.pc = "done" /\ w'.kind = "commit" /\ w'.sid = i
    /\ work_sessions[i].is_active
    /\ work_sessions[i].jira_issue # None

\* The commit's message has more lines than commit_comment_threshold.
OverThreshold ==
    /\ get_commit_message(world.message) # None
    /\ Lines(get_commit_message(world.message)) > world.commit_comment_threshold

C25_DisabledIsNoOp ==
    [][(~status_rules.enabled /\ w'.pc = "done")
       => /\ w'.kind \in Events \cup {"on_session_end"}
          /\ ~w'.result
          /\ w'.attempted = <<>>
          /\ remote' = remote]_vars

\* With automation disabled, an entry point was called on an issue whose status
\* its enabled rule would have moved, with a client and a tracker that answers.
C25_Witness ==
    /\ ~status_rules.enabled
    /\ w.pc = "done"
    /\ w.kind \in Events
    /\ jira_client
    /\ w.ok
    /\ status_rules.rules[w.kind].enabled
    /\ w.status \in status_rules.rules[w.kind].from_status
    /\ ~w.result

\* C27: on a modification of .git/HEAD the classifier emits a branch change if
\* and only if the branch read is readable, differs from the branch remembered
\* for the root, and the remembered branch is not null; the first observation
\* of a root only initialises the remembered branch.
C27_BranchChangeIff ==
    [][\A p \in Paths :
          (w.pc = "idle" /\ w'.pc = "done" /\ w'.kind = "branch" /\ w'.path = p)
          => /\ w'.outcome = "change"
                <=> /\ head[p] # None
                    /\ head[p] # tracked_branches[p]
                    /\ tracked_branches[p] # None
             /\ w'.outcome = "change"
                => /\ w'.old_branch = tracked_branches[p]
                   /\ w'.branch = head[p]
                   /\ w'.issue = extract_jira_issue(head[p])
             /\ (tracked_branches[p] = None /\ head[p] # None)
                => /\ w'.outcome = "first"
                   /\ tracked_branches'[p] = head[p]
             /\ w'.outcome = "ignored" => tracked_branches' = tracked_branches]_vars

\* A branch change was emitted for a root whose remembered branch was set by a
\* first observation.
C27_Witness ==
    /\ w.pc = "done"
    /\ w.kind = "branch"
    /\ w.outcome = "change"
    /\ w.old_branch # None
    /\ w.branch # w.old_branch
    /\ tracked_branches[w.path] = w.branch

\* The paths of the active repositories of the store.
ActivePaths ==
    {repositories[i].path : i \in {j \in 1..Len(repositories) :
                                      repositories[j].is_active}}

Elsewhere(sessions, r) ==
    {i \in 1..Len(sessions) : sessions[i].repository_id # r}

\* C29: the handling of a signal for one repository, a handling that fails
\* included, leaves the local state of every other repository unchanged: its
\* sessions, their activities, their orphan records and its entry in
\* active_sessions.
C29_OtherRepositoriesUntouched ==
    [][\A p \in Paths : \A r \in {get_repository_by_path(p)'} :
          (w.pc = "idle" /\ w'.pc = "done" /\ w'.path = p)
          => /\ Elsewhere(work_sessions', r) = Elsewhere(work_sessions, r)
             /\ \A i \in Elsewhere(work_sessions, r) :
                   work_sessions'[i] = work_sessions[i]
             /\ {k \in 1..Len(activities') :
                    activities'[k].session_id \in Elsewhere(work_sessions, r)}
                   = {k \in 1..Len(activities) :
                        activities[k].session_id \in Elsewhere(work_sessions, r)}
             /\ \A k \in 1..Len(activities) : activities'[k] = activities[k]
             /\ {o \in orphan_records' : o.session_id \in Elsewhere(work_sessions, r)}
                   = {o \in orphan_records :
                        o.session_id \in Elsewhere(work_sessions, r)}
             /\ \A q \in Paths \ {p} : ASGet(q)' = ASGet(q)]_vars

\* A handler of one repository has failed (the session could not be started)
\* while the other repository has an active session held in active_sessions.
C29_Witness ==
    /\ w.pc = "done"
    /\ w.outcome = "raised"
    /\ \E q \in Paths \ {w.path} :
          /\ ASGet(q) # NoSession
          /\ work_sessions[ASGet(q)].is_active
          /\ work_sessions[ASGet(q)].repository_id = get_repository_by_path(q)
          /\ get_repository_by_path(q) # get_repository_by_path(w.path)

\* C30: the duration codec round-trips: for every n >= 1,
\* parse_time_spent(format_time_spent(n)) = n; format_time_spent(0) is "1m",
\* which parses back to 1.
C30_CodecRoundTrip ==
    (w.pc = "done" /\ w.kind = "codec")
    => /\ w.minutes >= 1 => w.parsed = w.minutes
       /\ w.minutes = 0 => /\ w.time_spent = <<"1", "m">>
                           /\ w.parsed = 1

\* 125 minutes were formatted as "2h 5m" and parsed back.
C30_Witness ==
    /\ w.pc = "done"
    /\ w.kind = "codec"
    /\ w.minutes = 125
    /\ w.time_spent = <<"2", "h", " ", "5", "m">>
    /\ w.parsed = 125

\* C40: the total_minutes of every completed session is at least 0, whatever
\* the offset between the clock that stamps the start (the store's UTC
\* CURRENT_TIMESTAMP) and the clock read at the end (the process's local time).
C40_MinutesNotNegative ==
    \A i \in 1..Len(work_sessions) :
       Completed(i) => work_sessions[i].total_minutes >= 0

\* C34: the `active sessions` figure of the aggregate statistics equals the
\* number of sessions that are active in the store, in every state of a running
\* supervisor (right after a restart that finds sessions persisted as active,
\* and after force-end, included).
C34_StatsCountActive ==
    is_running
    => get_repository_stats.active_sessions
          = Cardinality({i \in 1..Len(work_sessions) : work_sessions[i].is_active})

\* The activities that open session i: repo_entered or branch_changed.
OpeningActivities(acts, i) ==
    {k \in 1..Len(acts) : /\ acts[k].session_id = i
                          /\ acts[k].activity_type \in {"repo_entered", "branch_changed"}}

\* C35: an OrphanRecord's total_minutes and activities_count are a snapshot of
\* its session taken when the record is created at session start, after the
\* session's opening activity was recorded; no later step (file modifications,
\* commits, the session's end) changes either field.
C35_OrphanSnapshot ==
    [][\A o \in orphan_records' :
          IF \E old \in orphan_records : old.id = o.id
          THEN \A old \in orphan_records :
                  old.id = o.id => /\ o.total_minutes = old.total_minutes
                                   /\ o.activities_count = old.activities_count
          ELSE /\ o.session_id \in 1..Len(work_sessions')
               /\ o.total_minutes = work_sessions'[o.session_id].total_minutes
               /\ o.activities_count
                     = Cardinality(OpeningActivities(activities', o.session_id))
               /\ o.activities_count = 1]_vars

\* The session of an orphan record has ended with a later activity recorded,
\* and the record still holds the snapshot of the start.
C35_Witness ==
    \E o \in orphan_records :
       /\ o.session_id \in 1..Len(work_sessions)
       /\ Completed(o.session_id)
       /\ count_activities(activities, o.session_id) > o.activities_count
       /\ o.activities_count = 1
       /\ o.total_minutes = 0
       /\ work_sessions[o.session_id].total_minutes # 0

\* C36: a single branch switch produces one handoff: whenever a branch-change
\* handoff (from the classifier's .git/HEAD signal or from the lazy recheck of a
\* file modification) has ended a session and started its replacement, the
\* replacement is on another branch than the session ended.
C36_HandoffChangesBranch ==
    ( /\ w.pc = "done"
      /\ w.kind \in {"branch", "file"}
      /\ w.outcome = "started"
      /\ w.end_sid # NoSession
      /\ Completed(w.end_sid) )
    => work_sessions[w.sid].branch_name # work_sessions[w.end_sid].branch_name

\* C37: an activity is appended only to a session that is active in the store
\* at the moment of the append: every file_modified or commit activity a step
\* adds belongs to a session that is active, for any interleaving of the
\* shutdown with the handling of signals.
C37_ActivityOnActiveSession ==
    [][\A k \in (Len(activities) + 1)..Len(activities') :
          activities'[k].activity_type \in {"file_modified", "commit"}
          => /\ activities'[k].session_id \in 1..Len(work_sessions')
             /\ work_sessions'[activities'[k].session_id].is_active]_vars

\* C38: whenever no handler is executing (the observer thread is idle and no
\* stop_monitoring is under way), every entry of the in-memory map names a
\* session that is active in the store and belongs to the repository of the
\* entry's path: never a completed session, never another repository's.
C38_MapNamesActiveSession ==
    (Quiet /\ m = <<>>)
    => \A k \in 1..Len(active_sessions) :
          /\ active_sessions[k].sid \in 1..Len(work_sessions)
          /\ work_sessions[active_sessions[k].sid].is_active
          /\ work_sessions[active_sessions[k].sid].repository_id
                = get_repository_by_path(active_sessions[k].path)

\* C39: a file-modification or commit signal for a repository that has no entry
\* in the in-memory map (idle, force-ended, or active only in the store from an
\* earlier run) is dropped: the handler records no activity, creates and ends
\* no session, and makes no tracker call.
C39_NoEntrySignalDropped ==
    [][( /\ w.pc = "idle"
         /\ w'.pc = "done"
         /\ w'.kind \in {"file", "commit"}
         /\ ASIndex(w'.path) = 0 )
       => /\ w'.outcome = "dropped"
          /\ UNCHANGED <<repositories, work_sessions, activities, orphan_records,
                         remote, active_sessions, first_commits>>
          /\ w'.moved = NoStatus
          /\ w'.commented = None]_vars

\* A dropped file modification: the map is empty after a restart while the
\* store holds the repository's active session on another branch than the one
\* checked out.
C39_Witness ==
    /\ w.pc = "done"
    /\ w.kind = "file"
    /\ w.outcome = "dropped"
    /\ ASIndex(w.path) = 0
    /\ get_repository_by_path(w.path) # 0
    /\ get_active_session_for_repo(get_repository_by_path(w.path)) # NoSession
    /\ work_sessions[get_active_session_for_repo(get_repository_by_path(w.path))].branch_name
          # head[w.path]

\* C33: no two repository records share a path and none is ever removed; and
\* repository records are inserted only by the user's add action: no step of a
\* signal handler adds one.
C33_RepositoriesOnlyByAdd ==
    [][/\ \A i, j \in 1..Len(repositories') :
             repositories'[i].path = repositories'[j].path => i = j
       /\ Len(repositories') >= Len(repositories)
       /\ \A i \in 1..Len(repositories) : repositories'[i].path = repositories[i].path
       /\ (w.pc = "idle" /\ w'.pc = "done") => Len(repositories') = Len(repositories)]_vars

\* C31: the branch-parser round trip: for every tuple (type, KEY-N, desc) of a
\* common branch type, an issue key and a description, parsing the branch name
\* that suggest_branch_name builds from it yields the issue KEY-N and the given
\* type.
C31_BranchRoundTrip ==
    (w.pc = "done" /\ w.kind = "branch_name")
    => /\ w.parsed.jira_issue = w.jira_issue
       /\ w.parsed.branch_type = w.branch_type

\* C32: transition(key, target): among the transitions available for the issue
\* the first whose to-status name equals target case-insensitively is executed
\* and true is returned; if none matches, or the client is not connected, or the
\* tracker raises, no transition is executed and false is returned.
C32_FirstMatchingTransition ==
    (w.pc = "done" /\ w.kind = "transition")
    => LET matching == {k \in 1..Len(w.transitions) :
                          Lower(w.transitions[k]) = Lower(w.new_status)}
       IN  IF w.connected /\ w.raises = "none" /\ matching # {}
           THEN /\ w.returned.result
                /\ w.returned.executed \in matching
                /\ \A k \in matching : w.returned.executed <= k
           ELSE /\ ~w.returned.result
                /\ w.returned.executed = 0

\* The second of two transitions is executed: the first leads elsewhere, the
\* second leads to the target written in another case.
C32_Witness ==
    /\ w.pc = "done"
    /\ w.kind = "transition"
    /\ w.returned.result
    /\ w.returned.executed = 2
    /\ w.transitions[2] # w.new_status
    /\ Lower(w.transitions[1]) # Lower(w.new_status)

====
